---- MODULE Spec2Model ----
(***************************************************************************)
(* A model of jmap-jam's request batching: the drafts proxy and            *)
(* InvocationDraft (request-drafts), the capability resolver, the response *)
(* demultiplexer, expandURITemplate, and the session and the calls of      *)
(* JamClient (request, requestMany, the blob calls, the event source).     *)
(*                                                                         *)
(* Strings the code inspects character by character (method names, the    *)
(* keys of an arguments object, method call ids) are sequences of          *)
(* one-character strings.  A JavaScript object is the sequence of its      *)
(* <<key, value>> properties in creation order; ObjectEntries gives the    *)
(* order in which the language enumerates them.                            *)
(***************************************************************************)
EXTENDS Integers, Sequences, FiniteSets, TLC

VARIABLES
    instances,  \* the InvocationDraft instances the drafts proxy has created
    drafts,     \* the record {id: draft} that draftsFn returns, in creation order
    built,      \* how buildRequestsFromDrafts ended: {methodCalls, methodNames}
    lastCompile, \* the latest run of createInvocationsFromDrafts: what it read and left
    capabilities, \* JamClient.capabilities: the Map entity -> capability
    methodNamesArg, \* the methodNames handed to getCapabilitiesForMethodCalls
    resolved,     \* the Set getCapabilitiesForMethodCalls returned
    client,     \* which JamClient runs the call: the current one or the earlier one
    errorStrategy, \* the errorStrategy option of the earlier client's requestMany
    operation,  \* the method of JamClient that was called
    response,   \* the HTTP response to the request, once it has arrived
    outcome,    \* how the call's promise settled
    template,   \* the template handed to expandURITemplate
    params,     \* the params handed to expandURITemplate
    expansion,  \* how expandURITemplate ended
    session,    \* JamClient.session: the promise of the session document
    sessionFetches, \* how many times the session URL has been fetched
    options,    \* what the running call keeps of its arguments
    exchanges,  \* the fetches the running call has made after the session's
    callsDone,  \* how many calls on the client have settled
    pc          \* where the run is

draftVars == <<instances, drafts, built, lastCompile>>
capabilityVars == <<capabilities, methodNamesArg, resolved>>
callVars == <<client, errorStrategy, operation, response, outcome>>

templateVars == <<template, params, expansion>>

sessionVars == <<session, sessionFetches, options, exchanges, callsDone>>

vars == <<draftVars, capabilityVars, callVars, templateVars, sessionVars, pc>>

----------------------------------------------------------------------------
(* Bounds *)

\* InvocationDraft instances one draftsFn creates
MaxDrafts == 2

\* method names handed to one getCapabilitiesForMethodCalls call
MaxMethodNames == 3

\* method responses in one response body
MaxResponses == 2

\* drafts with a placeholder that one draftsFn creates next to two equal drafts
MaxReferrers == 1

\* segments of a URI template after its origin
MaxSegments == 2

\* calls made on one client
MaxCalls == 2

\* calls in flight at once on one client
MaxInFlight == 2

----------------------------------------------------------------------------
(* JavaScript values and objects *)

\* undefined where a string is expected: no string of characters equals it.
Undefined == <<"undefined">>

\* null where an object is expected.
Null == [kind |-> "null"]

Digits == {"0", "1", "2", "3", "4", "5", "6", "7", "8", "9"}

DigitValue(c) ==
    CASE c = "0" -> 0 [] c = "1" -> 1 [] c = "2" -> 2 [] c = "3" -> 3
      [] c = "4" -> 4 [] c = "5" -> 5 [] c = "6" -> 6 [] c = "7" -> 7
      [] c = "8" -> 8 [] c = "9" -> 9

\* A property key that is a canonical array index ("0", "1", "12", never "01").
IsArrayIndex(key) ==
    /\ Len(key) >= 1
    /\ \A i \in 1..Len(key) : key[i] \in Digits
    /\ (Len(key) > 1 => key[1] # "0")

RECURSIVE NumericValue(_)
NumericValue(key) ==
    IF key = <<>> THEN 0
    ELSE 10 * NumericValue(SubSeq(key, 1, Len(key) - 1)) + DigitValue(key[Len(key)])

ObjectKeys(obj) == {obj[i][1] : i \in 1..Len(obj)}

ObjectHas(obj, key) == key \in ObjectKeys(obj)

ObjectGet(obj, key) ==
    IF ObjectHas(obj, key)
    THEN obj[CHOOSE i \in 1..Len(obj) : obj[i][1] = key][2]
    ELSE Undefined

\* obj[key] = value: a new property goes last, an existing one keeps its place.
ObjectSet(obj, key, value) ==
    IF ObjectHas(obj, key)
    THEN [i \in 1..Len(obj) |-> IF obj[i][1] = key THEN <<key, value>> ELSE obj[i]]
    ELSE Append(obj, <<key, value>>)

RECURSIVE SortedIndexKeys(_)
SortedIndexKeys(keys) ==
    IF keys = {} THEN <<>>
    ELSE LET least == CHOOSE k \in keys :
                        \A other \in keys : NumericValue(k) <= NumericValue(other)
         IN  <<least>> \o SortedIndexKeys(keys \ {least})

\* Object.entries: the array-index keys in ascending numeric order, then the
\* other string keys in creation order.
ObjectEntries(obj) ==
    LET indexKeys == {k \in ObjectKeys(obj) : IsArrayIndex(k)}
        sorted    == SortedIndexKeys(indexKeys)
        IsOther(p) == ~IsArrayIndex(p[1])
    IN  [i \in 1..Len(sorted) |-> <<sorted[i], ObjectGet(obj, sorted[i])>>]
          \o SelectSeq(obj, IsOther)

RECURSIVE ObjectFromEntries(_)
\* Object.fromEntries: the properties are defined one after the other, a later
\* entry with the same key overwriting the earlier one's value.
ObjectFromEntries(entries) ==
    IF entries = <<>> THEN <<>>
    ELSE LET last == entries[Len(entries)]
         IN  ObjectSet(ObjectFromEntries(SubSeq(entries, 1, Len(entries) - 1)),
                       last[1], last[2])

\* Set.prototype.add on a Set kept as the sequence of its members, in
\* insertion order.
SetAdd(set, member) ==
    IF \E i \in 1..Len(set) : set[i] = member THEN set ELSE Append(set, member)

Members(set) == {set[i] : i \in 1..Len(set)}

----------------------------------------------------------------------------
(* The inputs a draftsFn is drawn from *)

Slash == <<"/">>

Mailbox == <<"M", "a", "i", "l", "b", "o", "x">>
Email == <<"E", "m", "a", "i", "l">>
OpGet == <<"g", "e", "t">>

DraftEntities == {Mailbox, Email}
DraftOperations == {OpGet}

KeyIds == <<"i", "d", "s">>
KeyHashIds == <<"#", "i", "d", "s">>
ArgKeys == {KeyIds, KeyHashIds}

CallerIds == {<<"a">>, <<"1">>}

PlainValues == {"v"}
Paths == {"/list/*/id"}

\* A result reference placeholder, as $ref returns it: the path and the
\* invocation of the draft it was asked of (an instance, held by identity).
Ref(invocation, path) == [kind |-> "ref", invocation |-> invocation, path |-> path]

Plain(v) == [kind |-> "plain", v |-> v]

\* InvocationDraft.$ref
DraftRef(draft, path) == Ref(draft, path)

\* A test that never sees a placeholder.
isRef_Never(value) == FALSE

\* InvocationDraft.isRef
isRef(value) == value.kind = "ref"

\* The values the argument `key` of a new draft can take: a plain value or,
\* for ids, a placeholder made from an instance that exists already.
ArgValues(key) ==
    {Plain(v) : v \in PlainValues}
      \cup IF key = KeyIds
           THEN {DraftRef(d, p) : d \in 1..Len(instances), p \in Paths}
           ELSE {}

ArgProperties == {<<k, v>> : k \in ArgKeys, v \in UNION {ArgValues(key) : key \in ArgKeys}}

\* The arguments objects of a new draft: any properties over ArgKeys, in
\* either creation order.
ArgObjects ==
    LET Allowed == {p \in ArgProperties : p[2] \in ArgValues(p[1])}
    IN  {<<>>}
          \cup {<<p>> : p \in Allowed}
          \cup {<<p, q>> : <<p, q>> \in {t \in Allowed \X Allowed : t[1][1] # t[2][1]}}

----------------------------------------------------------------------------
(* request-drafts: InvocationDraft and buildRequestsFromDrafts *)

\* The wire-level ResultReference written for a placeholder.
ResultReference(name, resultOf, path) ==
    [kind |-> "resultReference", name |-> name, resultOf |-> resultOf, path |-> path]

\* A rewrite that forgets the "#" prefix.
HashKey_Unprefixed(key) == key

\* `#${key}`
HashKey(key) == <<"#">> \o key

\* A table that is keyed by what an invocation holds, not by which one it is.
InvocationToIdGet_ByContents(invocationToId, invocation) ==
    LET same == {d \in DOMAIN invocationToId : instances[d] = instances[invocation]}
    IN  IF same = {} THEN Undefined
        ELSE invocationToId[CHOOSE d \in same : \A e \in same : e <= d]

\* invocationToId.get(invocation): undefined until the invocation was set.
InvocationToIdGet(invocationToId, invocation) ==
    IF invocation \in DOMAIN invocationToId THEN invocationToId[invocation]
    ELSE Undefined

\* A callback that puts every entry under its "#" key.
TransformEntry_AllPrefixed(entry, invocationToId) ==
    LET key == entry[1]
        value == entry[2]
    IN  IF isRef(value)
        THEN <<HashKey(key),
               ResultReference(instances[value.invocation].method,
                               InvocationToIdGet(invocationToId, value.invocation),
                               value.path)>>
        ELSE <<HashKey(key), value>>

\* The callback that rewrites one [key, value] entry of a draft's arguments.
TransformEntry(entry, invocationToId) ==
    LET key == entry[1]
        value == entry[2]
    IN  IF isRef(value)
        THEN <<HashKey(key),
               ResultReference(instances[value.invocation].method,
                               InvocationToIdGet(invocationToId, value.invocation),
                               value.path)>>
        ELSE <<key, value>>

\* Transform partial refs into full refs.
TransformArgs(inputArgs, invocationToId) ==
    LET entries == ObjectEntries(inputArgs)
    IN  ObjectFromEntries(
            [i \in 1..Len(entries) |-> TransformEntry(entries[i], invocationToId)])

RECURSIVE MapDrafts(_, _, _, _)
\* The map over Object.entries(drafts): each step registers the draft's
\* invocation under its id, adds its method name and emits its invocation.
MapDrafts(entries, invocationToId, methodCalls, methodNames) ==
    IF entries = <<>>
    THEN [status |-> "returned", methodCalls |-> methodCalls, methodNames |-> methodNames]
    ELSE LET id == entries[1][1]
             draft == entries[1][2]
             method == instances[draft].method
             inputArgs == instances[draft].args
             toId == [d \in DOMAIN invocationToId \cup {draft} |->
                        IF d = draft THEN id ELSE invocationToId[d]]
             args == TransformArgs(inputArgs, toId)
         IN  MapDrafts(Tail(entries), toId,
                       Append(methodCalls, <<method, args, id>>),
                       SetAdd(methodNames, method))

\* A compiler that builds the whole id table before it rewrites any draft.
createInvocationsFromDrafts_TwoPass(draftsRecord) ==
    LET entries == ObjectEntries(draftsRecord)
        registered == {entries[i][2] : i \in 1..Len(entries)}
        table == [d \in registered |->
                    entries[CHOOSE i \in 1..Len(entries) :
                              /\ entries[i][2] = d
                              /\ \A j \in 1..Len(entries) : entries[j][2] = d => j <= i][1]]
    IN  [status |-> "returned",
         methodCalls |-> [i \in 1..Len(entries) |->
                            <<instances[entries[i][2]].method,
                              TransformArgs(instances[entries[i][2]].args, table),
                              entries[i][1]>>],
         methodNames |-> MapDrafts(entries, <<>>, <<>>, <<>>).methodNames]

\* A compiler that refuses a placeholder whose source is not in the record.
createInvocationsFromDrafts_FailFast(draftsRecord) ==
    LET entries == ObjectEntries(draftsRecord)
        registered == {entries[i][2] : i \in 1..Len(entries)}
        Dangling(d) == \E n \in 1..Len(instances[d].args) :
                          /\ isRef(instances[d].args[n][2])
                          /\ instances[d].args[n][2].invocation \notin registered
    IN  IF \E d \in registered : Dangling(d)
        THEN [status |-> "thrown"]
        ELSE MapDrafts(entries, <<>>, <<>>, <<>>)

\* A table that still holds what earlier lastCompile set.
NewInvocationToId_Kept(earlier) == earlier

\* `new Map<unknown, string>()`: every compilation starts with an empty table,
\* whatever the tables of earlier lastCompile held.
NewInvocationToId(earlier) == <<>>

RECURSIVE InvocationToIdAfter(_, _)
\* What the table holds once every entry's invocationToId.set has run.
InvocationToIdAfter(entries, invocationToId) ==
    IF entries = <<>> THEN invocationToId
    ELSE InvocationToIdAfter(
             Tail(entries),
             [d \in DOMAIN invocationToId \cup {entries[1][2]} |->
                 IF d = entries[1][2] THEN entries[1][1] ELSE invocationToId[d]])

\* A rewrite that stores the rewritten arguments in the draft.
InputArgsAfter_InPlace(inputArgs, invocationToId) ==
    TransformArgs(inputArgs, invocationToId)

\* inputArgs after the rewrite: Object.entries(inputArgs).map(...) and
\* Object.fromEntries(...) make new arrays and a new object, and nothing is
\* assigned to inputArgs or to draft.#invocation.
InputArgsAfter(inputArgs, invocationToId) == inputArgs

\* The InvocationDraft instances as a compilation of the entries leaves them.
InstancesAfter(heap, entries, invocationToId) ==
    [d \in 1..Len(heap) |->
        IF \E i \in 1..Len(entries) : entries[i][2] = d
        THEN [heap[d] EXCEPT !.args = InputArgsAfter(@, invocationToId)]
        ELSE heap[d]]

\* createInvocationsFromDrafts(drafts), run after lastCompile whose last
\* table was `earlier`.
createInvocationsFromDraftsAfter(draftsRecord, earlier) ==
    MapDrafts(ObjectEntries(draftsRecord), NewInvocationToId(earlier), <<>>, <<>>)

createInvocationsFromDrafts(draftsRecord) ==
    createInvocationsFromDraftsAfter(draftsRecord, <<>>)

----------------------------------------------------------------------------
(* capabilities: the capability resolver *)

Core == <<"C", "o", "r", "e">>
Thread == <<"T", "h", "r", "e", "a", "d">>
SearchSnippet == <<"S", "e", "a", "r", "c", "h", "S", "n", "i", "p", "p", "e", "t">>
Identity == <<"I", "d", "e", "n", "t", "i", "t", "y">>
EmailSubmission ==
    <<"E", "m", "a", "i", "l", "S", "u", "b", "m", "i", "s", "s", "i", "o", "n">>
VacationResponse ==
    <<"V", "a", "c", "a", "t", "i", "o", "n", "R", "e", "s", "p", "o", "n", "s", "e">>

CoreCapability == "urn:ietf:params:jmap:core"
MailCapability == "urn:ietf:params:jmap:mail"
SubmissionCapability == "urn:ietf:params:jmap:submission"
VacationResponseCapability == "urn:ietf:params:jmap:vacationresponse"

\* Entities associated with their JMAP capability identifiers.
knownCapabilities ==
    << <<Core, CoreCapability>>,
       <<Mailbox, MailCapability>>,
       <<Thread, MailCapability>>,
       <<Email, MailCapability>>,
       <<SearchSnippet, MailCapability>>,
       <<Identity, SubmissionCapability>>,
       <<EmailSubmission, SubmissionCapability>>,
       <<VacationResponse, VacationResponseCapability>> >>

\* The characters \w matches.
WordChars ==
    {"a", "b", "c", "d", "e", "f", "g", "h", "i", "j", "k", "l", "m",
     "n", "o", "p", "q", "r", "s", "t", "u", "v", "w", "x", "y", "z",
     "A", "B", "C", "D", "E", "F", "G", "H", "I", "J", "K", "L", "M",
     "N", "O", "P", "Q", "R", "S", "T", "U", "V", "W", "X", "Y", "Z",
     "_"} \cup Digits

NoMatch == Undefined

\* entityMatcher.exec(method)?.[1] for /^(\w+)\//: the run of word characters
\* the name starts with, if it is not empty and a "/" follows it.
EntityMatch(method) ==
    LET run == CHOOSE n \in 0..Len(method) :
                  /\ \A i \in 1..n : method[i] \in WordChars
                  /\ (n < Len(method) => method[n + 1] \notin WordChars)
    IN  IF run >= 1 /\ run < Len(method) /\ method[run + 1] = "/"
        THEN SubSeq(method, 1, run)
        ELSE NoMatch

\* A loop body that adds whatever the Map returns, undefined included.
AddCapabilityFor_Unguarded(set, method, availableCapabilities) ==
    LET entity == EntityMatch(method)
    IN  IF entity = NoMatch THEN set
        ELSE IF ObjectHas(availableCapabilities, entity)
        THEN SetAdd(set, ObjectGet(availableCapabilities, entity))
        ELSE SetAdd(set, "undefined")

\* The body of the loop over methodNames: the entity's capability is added
\* if the name has an entity and the Map has a capability for it (undefined
\* and the empty string are falsy).
AddCapabilityFor(set, method, availableCapabilities) ==
    LET entity == EntityMatch(method)
    IN  IF entity = NoMatch THEN set
        ELSE IF /\ ObjectHas(availableCapabilities, entity)
                /\ ObjectGet(availableCapabilities, entity) # ""
        THEN SetAdd(set, ObjectGet(availableCapabilities, entity))
        ELSE set

RECURSIVE CollectCapabilities(_, _)
CollectCapabilities(names, availableCapabilities) ==
    IF names = <<>> THEN <<>>
    ELSE AddCapabilityFor(
             CollectCapabilities(SubSeq(names, 1, Len(names) - 1), availableCapabilities),
             names[Len(names)], availableCapabilities)

\* A resolver that keeps the capability of the last name alone.
getCapabilitiesForMethodCalls_LastOnly(names, availableCapabilities) ==
    LET collected == IF names = <<>> THEN <<>>
                     ELSE AddCapabilityFor(<<>>, names[Len(names)], availableCapabilities)
    IN  IF Len(collected) > 0 THEN SetAdd(collected, CoreCapability) ELSE collected

\* A resolver that forgets the core capability.
getCapabilitiesForMethodCalls_NoCore(names, availableCapabilities) ==
    CollectCapabilities(names, availableCapabilities)

\* A resolver that adds the core capability whatever it has collected.
getCapabilitiesForMethodCalls_AlwaysCore(names, availableCapabilities) ==
    SetAdd(CollectCapabilities(names, availableCapabilities), CoreCapability)

getCapabilitiesForMethodCalls(names, availableCapabilities) ==
    LET collected == CollectCapabilities(names, availableCapabilities)
    IN  IF Len(collected) > 0 THEN SetAdd(collected, CoreCapability) ELSE collected

\* A Map built from the known entries first and the custom entries last.
JamClientCapabilities_CustomLast(customCapabilities) ==
    ObjectFromEntries(ObjectEntries(knownCapabilities) \o ObjectEntries(customCapabilities))

\* JamClient's constructor: new Map([...custom entries, ...known entries]).
JamClientCapabilities(customCapabilities) ==
    ObjectFromEntries(ObjectEntries(customCapabilities) \o ObjectEntries(knownCapabilities))

----------------------------------------------------------------------------
(* helpers: the response demultiplexer *)

ErrorName == <<"e", "r", "r", "o", "r">>

isErrorInvocation(input) == input[1] = ErrorName

getErrorFromInvocation(invocation) ==
    IF isErrorInvocation(invocation) THEN invocation[2] ELSE Null

\* A demultiplexer that leaves the payload of an error in data as well.
getResultsForMethodCalls_DataKept(methodCallResponses, returnErrors) ==
    ObjectFromEntries(
        [i \in 1..Len(methodCallResponses) |->
            LET name == methodCallResponses[i][1]
                data == methodCallResponses[i][2]
                id == methodCallResponses[i][3]
            IN  IF ~returnErrors THEN <<id, data>>
                ELSE IF name = ErrorName THEN <<id, [data |-> data, error |-> data]>>
                ELSE <<id, [data |-> data, error |-> Null]>>])

\* A demultiplexer that keys the results by response name, not by id.
getResultsForMethodCalls_ByName(methodCallResponses, returnErrors) ==
    ObjectFromEntries(
        [i \in 1..Len(methodCallResponses) |->
            <<methodCallResponses[i][1], methodCallResponses[i][2]>>])

\* A demultiplexer that keeps, for an id, the first response that echoes it.
getResultsForMethodCalls_FirstKept(methodCallResponses, returnErrors) ==
    ObjectFromEntries(
        [i \in 1..Len(methodCallResponses) |->
            LET at == Len(methodCallResponses) + 1 - i
                name == methodCallResponses[at][1]
                data == methodCallResponses[at][2]
                id == methodCallResponses[at][3]
            IN  IF ~returnErrors THEN <<id, data>>
                ELSE IF name = ErrorName THEN <<id, [data |-> Null, error |-> data]>>
                ELSE <<id, [data |-> data, error |-> Null]>>])

\* getResultsForMethodCalls(methodCallResponses, {returnErrors})
getResultsForMethodCalls(methodCallResponses, returnErrors) ==
    ObjectFromEntries(
        [i \in 1..Len(methodCallResponses) |->
            LET name == methodCallResponses[i][1]
                data == methodCallResponses[i][2]
                id == methodCallResponses[i][3]
            IN  IF ~returnErrors THEN <<id, data>>
                ELSE IF name = ErrorName THEN <<id, [data |-> Null, error |-> data]>>
                ELSE <<id, [data |-> data, error |-> Null]>>])

----------------------------------------------------------------------------
(* helpers: expandURITemplate *)

\* String.prototype.includes
Includes(string, search) ==
    \E at \in 0..(Len(string) - Len(search)) :
        SubSeq(string, at + 1, at + Len(search)) = search

RECURSIVE ReplaceAll(_, _, _)
\* String.prototype.replaceAll with a string pattern: every occurrence, from
\* the left, without overlap.
ReplaceAll(string, search, value) ==
    IF Len(string) < Len(search) THEN string
    ELSE IF SubSeq(string, 1, Len(search)) = search
    THEN value \o ReplaceAll(SubSeq(string, Len(search) + 1, Len(string)), search, value)
    ELSE <<string[1]>> \o ReplaceAll(Tail(string), search, value)

\* The scheme and host of an absolute URL, as one character of the text.
Origin == "https://jmap.example/"

\* What the URL parser makes of a character of the path.
PercentEncode(c) == IF c = "{" THEN "%7B" ELSE IF c = "}" THEN "%7D" ELSE c

Thrown(error) == [kind |-> "thrown", error |-> error]

\* new URL(input): a TypeError unless the text is an absolute URL.
NewURL(input) ==
    IF input # <<>> /\ input[1] = Origin
    THEN [kind |-> "URL", href |-> [i \in 1..Len(input) |-> PercentEncode(input[i])]]
    ELSE Thrown([name |-> "TypeError"])

\* An error whose message does not say which parameter is missing.
MissingParameter_Unnamed(templateText, key) ==
    [name |-> "Error", template |-> templateText, parameter |-> Undefined]

\* new Error(`Template "${template}" is missing parameter: ${key}`)
MissingParameter(templateText, key) ==
    [name |-> "Error", template |-> templateText, parameter |-> key]

\* `{${key}}`
Parameter(key) == <<"{">> \o key \o <<"}">>

RECURSIVE ExpandEntries(_, _, _)
\* The loop over Object.entries(params).
ExpandEntries(templateText, expanded, entries) ==
    IF entries = <<>> THEN NewURL(expanded)
    ELSE LET key == entries[1][1]
             value == entries[1][2]
         IN  IF ~Includes(expanded, Parameter(key))
             THEN Thrown(MissingParameter(templateText, key))
             ELSE ExpandEntries(templateText,
                                ReplaceAll(expanded, Parameter(key), value),
                                Tail(entries))

\* An expansion that skips the parameters the template does not hold.
expandURITemplate_Lenient(templateText, paramsObject) ==
    LET entries == ObjectEntries(paramsObject)
        Held(n) == Includes(templateText, Parameter(entries[n][1]))
        held == SelectSeq([n \in 1..Len(entries) |-> <<entries[n][1], entries[n][2], Held(n)>>],
                          LAMBDA e : e[3])
    IN  ExpandEntries(templateText, templateText, held)

expandURITemplate(templateText, paramsObject) ==
    ExpandEntries(templateText, templateText, ObjectEntries(paramsObject))

\* expandURITemplate has not been called.
NotExpanded == [kind |-> "none"]

NoExpansion == template = <<>> /\ params = <<>> /\ expansion = NotExpanded

----------------------------------------------------------------------------
(* client: how requestMany settles once the response has arrived *)

\* The payload a responding server gives its n-th method response.
SyntheticPayload(n) == [payload |-> n]
Resolved(value, meta) == [kind |-> "resolved", value |-> value, meta |-> meta]
Rejected(error) == [kind |-> "rejected", error |-> error]
Pending == [kind |-> "pending"]

NoResponse == [kind |-> "none"]

\* A 2xx response whose JSON body is {methodResponses, sessionState, createdIds}.
OkResponse(methodResponses, sessionState) ==
    [kind |-> "http", ok |-> TRUE, methodResponses |-> methodResponses,
     sessionState |-> sessionState, createdIds |-> Undefined]

\* A 4xx-5xx response: its Content-Type header (NoHeader if it has none) and
\* its body, which is JSON text when the header says so.
ErrorResponse(contentType, body) ==
    [kind |-> "http", ok |-> FALSE, contentType |-> contentType, body |-> body]

NoHeader == <<"null">>

Json == <<"j", "s", "o", "n">>

\* An error path that never parses the body.
HttpError_AlwaysText(res) == [kind |-> "text", of |-> res.body]

\* "Handle 4xx-5xx errors": the parsed JSON body if the Content-Type includes
\* "json", the body's text otherwise.
HttpError(res) ==
    IF res.contentType # NoHeader /\ Includes(res.contentType, Json)
    THEN [kind |-> "json", of |-> res.body]
    ELSE [kind |-> "text", of |-> res.body]

\* A collection that stops at the first error.
CollectErrors_FirstOnly(methodResponses) ==
    LET errors == {i \in 1..Len(methodResponses) : isErrorInvocation(methodResponses[i])}
    IN  IF errors = {} THEN <<>>
        ELSE <<methodResponses[CHOOSE i \in errors : \A j \in errors : i <= j][2]>>

\* methodResponses.map(getErrorFromInvocation).filter(e => e !== null)
CollectErrors(methodResponses) ==
    LET mapped == [i \in 1..Len(methodResponses) |->
                      getErrorFromInvocation(methodResponses[i])]
        NotNull(e) == e # Null
    IN  SelectSeq(mapped, NotNull)

Meta(res) ==
    [sessionState |-> res.sessionState, createdIds |-> res.createdIds, response |-> res]

\* JamClient.requestMany of the current client, from "Handle success" on.
requestManySuccess(res) ==
    LET errors == CollectErrors(res.methodResponses)
    IN  IF Len(errors) > 0
        THEN Rejected(errors)
        ELSE Resolved(getResultsForMethodCalls(res.methodResponses, FALSE), Meta(res))

\* JamClient.requestMany of the current client, once the response is there.
requestManySettle(res) ==
    IF ~res.ok THEN Rejected(HttpError(res)) ELSE requestManySuccess(res)

\* JamClient.requestMany of the earlier client, once the response is there:
\* errorStrategy defaults to "throw", and any value but "throw" returns.
requestManySettleEarlier(res, strategy) ==
    IF ~res.ok THEN Rejected(HttpError(res))
    ELSE IF strategy \in {"unset", "throw"}
    THEN LET errors == CollectErrors(res.methodResponses)
         IN  IF Len(errors) > 0
             THEN Rejected(errors)
             ELSE Resolved(getResultsForMethodCalls(res.methodResponses, FALSE), Meta(res))
    ELSE Resolved(getResultsForMethodCalls(res.methodResponses, TRUE), Meta(res))

\* What reading input[0] of an undefined invocation throws.
TypeError == [kind |-> "TypeError"]

\* A single-call path that hands back the error payload as a result.
requestSettle_Lenient(res) ==
    IF ~res.ok THEN Rejected(HttpError(res))
    ELSE IF res.methodResponses = <<>> THEN Rejected(TypeError)
    ELSE Resolved(res.methodResponses[1][2], Meta(res))

\* A single-call path that looks for the method response that echoes "r1".
requestSettle_ById(res) ==
    IF ~res.ok THEN Rejected(HttpError(res))
    ELSE IF res.methodResponses = <<>> THEN Rejected(TypeError)
    ELSE LET echoing == {n \in 1..Len(res.methodResponses) :
                            res.methodResponses[n][3] = <<"r", "1">>}
             methodResponse ==
                 IF echoing = {} THEN res.methodResponses[1]
                 ELSE res.methodResponses[CHOOSE n \in echoing : \A m \in echoing : n <= m]
             error == getErrorFromInvocation(methodResponse)
         IN  IF error # Null
             THEN Rejected(error)
             ELSE Resolved(methodResponse[2], Meta(res))

\* JamClient.request, once the response is there: the first method response
\* is the call's; its payload is thrown if it is an error and returned with
\* the meta otherwise.
requestSettle(res) ==
    IF ~res.ok THEN Rejected(HttpError(res))
    ELSE IF res.methodResponses = <<>> THEN Rejected(TypeError)
    ELSE LET methodResponse == res.methodResponses[1]
             error == getErrorFromInvocation(methodResponse)
         IN  IF error # Null
             THEN Rejected(error)
             ELSE Resolved(methodResponse[2], Meta(res))

----------------------------------------------------------------------------
(* client: the session and the calls of JamClient *)

SessionPending == [state |-> "pending"]
SessionResolved(doc) == [state |-> "resolved", doc |-> doc]
SessionRejected == [state |-> "rejected"]

NoOptions == [kind |-> "none"]

\* The client as its constructor leaves it: loadSession has been called once
\* and no method has been called.
NoCalls ==
    /\ session = SessionPending
    /\ sessionFetches = 1
    /\ options = NoOptions
    /\ exchanges = <<>>
    /\ callsDone = 0

\* A call that loads the session anew.
AwaitedSession_Reloaded(current, fetches) ==
    [session |-> SessionPending, fetches |-> fetches + 1]

\* `await this.session`: the promise the constructor stored, and no fetch.
AwaitedSession(current, fetches) == [session |-> current, fetches |-> fetches]

\* `Bearer ${config.bearerToken}`
AuthHeader == [scheme |-> "Bearer", token |-> "bearerToken"]

\* {...target, ...source}: the properties of source, set on target in turn.
RECURSIVE Spread(_, _)
Spread(target, source) ==
    IF source = <<>> THEN target
    ELSE Spread(ObjectSet(target, source[1][1], source[1][2]), Tail(source))

\* JSON.stringify(body)
JSONStringify(body) == [kind |-> "JSON", of |-> body]

\* The body request and requestMany build: the capabilities of the method
\* names, then the caller's using; the method calls; the caller's createdIds.
RequestBody(methodNames, using, methodCalls, createdIds) ==
    [using |-> getCapabilitiesForMethodCalls(methodNames, capabilities) \o using,
     methodCalls |-> methodCalls,
     createdIds |-> createdIds]

\* The init of the fetch of request and requestMany.
ApiInit(body, fetchInit) ==
    Spread(<< <<"method", "POST">>,
              <<"headers", << <<"Authorization", AuthHeader>>,
                              <<"Accept", "application/json">>,
                              <<"Content-Type", "application/json">> >> >>,
              <<"body", JSONStringify(body)>> >>,
           fetchInit)

\* The init of the fetch of uploadBlob.
UploadInit(body, fetchInit) ==
    Spread(<< <<"method", "POST">>,
              <<"headers", << <<"Authorization", AuthHeader>>,
                              <<"Accept", "application/json">> >> >>,
              <<"body", body>> >>,
           fetchInit)

\* The init of the fetch of downloadBlob.
DownloadInit(fetchInit) ==
    Spread(<< <<"method", "GET">>,
              <<"headers", << <<"Authorization", AuthHeader>> >> >> >>,
           fetchInit)

\* A call that posts to the URL the session was fetched from.
ApiUrlOf_SessionUrl(doc) == "https://jmap.example/session"

\* `const { apiUrl } = await this.session`
ApiUrlOf(doc) == doc.apiUrl

Exchange(url, init) == [url |-> url, init |-> init]

\* fetch rejected: no response came.
FetchRejected == [kind |-> "fetch rejected"]

NetworkError == [kind |-> "network error"]

\* new Error("Failed to upload blob" or "Failed to download blob", { cause })
Failed(what, cause) == [kind |-> "Error", message |-> what, cause |-> cause]

Returned(value) == [kind |-> "resolved", value |-> value]

ApiOperations == {"request", "api", "requestMany"}

\* How a call goes on once its fetch has settled, with a response or without.
Outcome(op, res) ==
    IF op \in {"request", "api"}
    THEN IF res = FetchRejected THEN Rejected(NetworkError) ELSE requestSettle(res)
    ELSE IF op = "requestMany"
    THEN IF res = FetchRejected THEN Rejected(NetworkError) ELSE requestManySettle(res)
    ELSE LET what == IF op = "uploadBlob" THEN "Failed to upload blob"
                     ELSE "Failed to download blob"
         IN  IF res = FetchRejected THEN Rejected(Failed(what, NetworkError))
             ELSE IF ~res.ok THEN Rejected(Failed(what, HttpError(res)))
             ELSE IF op = "uploadBlob" THEN Returned([kind |-> "json", of |-> res])
             ELSE Returned(res)

\* A call that sends its request once more when the exchange failed.
Settle_Retrying(op, res, sent) ==
    IF (res = FetchRejected \/ ~res.ok) /\ Len(sent) < 2
    THEN [pc |-> "fetching", outcome |-> Pending, exchanges |-> Append(sent, sent[1])]
    ELSE [pc |-> "settled", outcome |-> Outcome(op, res), exchanges |-> sent]

\* The call settles with what its one fetch gave.
Settle(op, res, sent) ==
    [pc |-> "settled", outcome |-> Outcome(op, res), exchanges |-> sent]

----------------------------------------------------------------------------
(* Compiling a batch: SpecCompile *)

NotBuilt == [status |-> "none"]

NotCompiled == [status |-> "none"]

InitCompile ==
    /\ NoCalls
    /\ NoExpansion
    /\ instances = <<>>
    /\ drafts = <<>>
    /\ built = NotBuilt
    /\ lastCompile = NotCompiled
    /\ capabilities = JamClientCapabilities(<<>>)
    /\ methodNamesArg = <<>>
    /\ resolved = <<>>
    /\ client = "current"
    /\ errorStrategy = "unset"
    /\ operation = "requestMany"
    /\ response = NoResponse
    /\ outcome = Pending
    /\ pc = "drafting"

\* draftsFn calls b.<entity>.<operation>(args): the proxy makes a new
\* InvocationDraft of [`${entity}/${operation}`, args].
NewDraft ==
    /\ pc = "drafting"
    /\ Len(instances) < MaxDrafts
    /\ \E entity \in DraftEntities, op \in DraftOperations, args \in ArgObjects :
          instances' = Append(instances,
                              [method |-> entity \o Slash \o op, args |-> args])
    /\ UNCHANGED <<sessionVars, templateVars, lastCompile, drafts, built, capabilityVars, callVars, pc>>

\* draftsFn puts a draft into the record it returns, under a new id.
Register ==
    /\ pc = "drafting"
    /\ \E id \in CallerIds \ ObjectKeys(drafts), draft \in 1..Len(instances) :
          drafts' = ObjectSet(drafts, id, draft)
    /\ UNCHANGED <<sessionVars, templateVars, lastCompile, instances, built, capabilityVars, callVars, pc>>

\* draftsFn returns and buildRequestsFromDrafts compiles the record.
Compile ==
    /\ pc = "drafting"
    /\ built' = createInvocationsFromDrafts(drafts)
    /\ pc' = "built"
    /\ UNCHANGED <<sessionVars, templateVars, lastCompile, instances, drafts, capabilityVars, callVars>>

\* The orders in which a server can answer n method calls.
Orders(n) == {f \in [1..n -> 1..n] : \A i, j \in 1..n : f[i] = f[j] => i = j}

\* The server answers every method call once, in any order, with a success
\* response that echoes the call's id, and requestMany settles.
Echo ==
    /\ pc = "built"
    /\ \E order \in Orders(Len(built.methodCalls)) :
          LET methodResponses ==
                [n \in 1..Len(built.methodCalls) |->
                    <<built.methodCalls[order[n]][1], SyntheticPayload(n),
                      built.methodCalls[order[n]][3]>>]
              res == OkResponse(methodResponses, "state")
          IN  /\ response' = res
              /\ outcome' = requestManySuccess(res)
    /\ pc' = "settled"
    /\ UNCHANGED <<sessionVars, templateVars, draftVars, capabilityVars, client, errorStrategy, operation>>

NextCompile == NewDraft \/ Register \/ Compile \/ Echo

SpecCompile == InitCompile /\ [][NextCompile]_vars

----------------------------------------------------------------------------
(* Compiling batch after batch: SpecBatches *)

InitBatches == InitCompile

\* The caller makes a Mailbox draft without arguments, or an Email draft
\* whose ids argument is a placeholder of a draft made before, in this batch
\* or in an earlier one.
MakeDraft ==
    /\ pc = "drafting"
    /\ Len(instances) < MaxDrafts
    /\ \E op \in DraftOperations :
          \E draft \in {[method |-> Mailbox \o Slash \o op, args |-> <<>>]}
                        \cup {[method |-> Email \o Slash \o op,
                               args |-> << <<KeyIds, DraftRef(d, p)>> >>] :
                                  d \in 1..Len(instances), p \in Paths} :
              instances' = Append(instances, draft)
    /\ UNCHANGED <<sessionVars, templateVars, lastCompile, drafts, built, capabilityVars,
                   callVars, pc>>

\* The table the latest compilation left behind.
EarlierTable ==
    IF lastCompile = NotCompiled THEN <<>> ELSE lastCompile.invocationToId

\* createInvocationsFromDrafts runs on the record: the first time, once more
\* on the same record, or on the record of a later batch.
CompileBatch ==
    /\ pc \in {"drafting", "built"}
    /\ LET entries == ObjectEntries(drafts)
           result == createInvocationsFromDraftsAfter(drafts, EarlierTable)
           table == InvocationToIdAfter(entries, NewInvocationToId(EarlierTable))
           after == InstancesAfter(instances, entries, table)
       IN  /\ built' = result
           /\ instances' = after
           /\ lastCompile' = [status |-> "returned",
                               drafts |-> drafts,
                               before |-> instances,
                               after |-> after,
                               built |-> result,
                               previous |-> built,
                               earlier |-> IF lastCompile = NotCompiled THEN <<>>
                                           ELSE lastCompile.drafts,
                               invocationToId |-> table]
    /\ pc' = "built"
    /\ UNCHANGED <<sessionVars, templateVars, drafts, capabilityVars, callVars>>

\* The caller starts the record of another batch; the drafts made so far
\* are still at hand.
NextBatch ==
    /\ pc = "built"
    /\ drafts' = <<>>
    /\ built' = NotBuilt
    /\ pc' = "drafting"
    /\ UNCHANGED <<sessionVars, templateVars, instances, lastCompile, capabilityVars,
                   callVars>>

NextBatches == MakeDraft \/ Register \/ CompileBatch \/ NextBatch

SpecBatches == InitBatches /\ [][NextBatches]_vars

----------------------------------------------------------------------------
(* Resolving capabilities: SpecCapabilities *)

OpEcho == <<"e", "c", "h", "o">>
Sandwich == <<"S", "a", "n", "d", "w", "i", "c", "h">>
MyExt == <<"M", "y", "-", "E", "x", "t">>
Blank == <<"B", "l", "a", "n", "k">>

\* The customCapabilities a client is configured with.
CustomCapabilityChoices ==
    { <<>>,
      << <<Sandwich, "urn:bigco:params:jmap:sandwich">> >>,
      << <<MyExt, "urn:example:params:jmap:my-ext">> >>,
      << <<Mailbox, "urn:example:params:jmap:mailbox">> >>,
      << <<Blank, "">> >> }

\* The method names a caller asks for; one of them has no "/".
MethodNamePool ==
    { Mailbox \o Slash \o OpGet,
      Email \o Slash \o OpGet,
      Identity \o Slash \o OpGet,
      Core \o Slash \o OpEcho,
      Sandwich \o Slash \o OpGet,
      MyExt \o Slash \o OpGet,
      Blank \o Slash \o OpGet,
      Mailbox }

InitCapabilities ==
    /\ NoCalls
    /\ NoExpansion
    /\ \E custom \in CustomCapabilityChoices :
          capabilities = JamClientCapabilities(custom)
    /\ methodNamesArg = <<>>
    /\ resolved = <<>>
    /\ instances = <<>>
    /\ drafts = <<>>
    /\ built = NotBuilt
    /\ lastCompile = NotCompiled
    /\ client = "current"
    /\ errorStrategy = "unset"
    /\ operation = "requestMany"
    /\ response = NoResponse
    /\ outcome = Pending
    /\ pc = "naming"

\* The caller names one more method.
GiveMethodName ==
    /\ pc = "naming"
    /\ Len(methodNamesArg) < MaxMethodNames
    /\ \E name \in MethodNamePool \ Members(methodNamesArg) :
          methodNamesArg' = Append(methodNamesArg, name)
    /\ UNCHANGED <<sessionVars, templateVars, capabilities, resolved, draftVars, callVars, pc>>

\* request and requestMany resolve the capabilities of the names.
Resolve ==
    /\ pc = "naming"
    /\ resolved' = getCapabilitiesForMethodCalls(methodNamesArg, capabilities)
    /\ pc' = "resolved"
    /\ UNCHANGED <<sessionVars, templateVars, capabilities, methodNamesArg, draftVars, callVars>>

NextCapabilities == GiveMethodName \/ Resolve

SpecCapabilities == InitCapabilities /\ [][NextCapabilities]_vars

----------------------------------------------------------------------------
(* Settling a requestMany call: SpecRequestMany *)

ErrorStrategies == {"unset", "throw", "return", "other"}

ResponseNames == {ErrorName, Mailbox \o Slash \o OpGet}

ResponseInvocations ==
    {<<name, SyntheticPayload(n), id>> :
        name \in ResponseNames, n \in 1..2, id \in CallerIds}

ContentTypes ==
    { NoHeader,
      <<"t", "e", "x", "t", "/", "p", "l", "a", "i", "n">>,
      <<"a", "p", "p", "l", "i", "c", "a", "t", "i", "o", "n", "/", "j", "s", "o", "n">>,
      <<"a", "p", "p", "l", "i", "c", "a", "t", "i", "o", "n", "/",
        "p", "r", "o", "b", "l", "e", "m", "+", "j", "s", "o", "n">>,
      <<"a", "p", "p", "l", "i", "c", "a", "t", "i", "o", "n", "/", "J", "S", "O", "N">> }

\* The responses a server can give: any method responses, with any names, ids
\* and order, or an error status.
Responses ==
    {OkResponse(methodResponses, "state") :
        methodResponses \in UNION {[1..n -> ResponseInvocations] : n \in 0..MaxResponses}}
      \cup {ErrorResponse(contentType, "body") : contentType \in ContentTypes}

\* The methods of JamClient that send one JMAP request: requestMany,
\* request, and the fluent api.<Entity>.<operation>.
Operations == {"requestMany", "request", "api"}

\* The request has been sent by the current client, or by the earlier one
\* with some errorStrategy (an option of requestMany alone).
InitRequestMany ==
    /\ NoCalls
    /\ NoExpansion
    /\ \E c \in {"current", "earlier"}, strategy \in ErrorStrategies, op \in Operations :
          /\ (c = "current" \/ op # "requestMany") => strategy = "unset"
          /\ client = c
          /\ errorStrategy = strategy
          /\ operation = op
    /\ response = NoResponse
    /\ outcome = Pending
    /\ instances = <<>>
    /\ drafts = <<>>
    /\ built = NotBuilt
    /\ lastCompile = NotCompiled
    /\ capabilities = JamClientCapabilities(<<>>)
    /\ methodNamesArg = <<>>
    /\ resolved = <<>>
    /\ pc = "sent"

\* The response arrives at the current client's requestMany.
Receive ==
    /\ pc = "sent"
    /\ operation = "requestMany"
    /\ client = "current"
    /\ \E res \in Responses :
          /\ response' = res
          /\ outcome' = requestManySettle(res)
    /\ pc' = "settled"
    /\ UNCHANGED <<sessionVars, templateVars, draftVars, capabilityVars, client, errorStrategy, operation>>

\* The response arrives at the earlier client's requestMany.
ReceiveEarlier ==
    /\ pc = "sent"
    /\ operation = "requestMany"
    /\ client = "earlier"
    /\ \E res \in Responses :
          /\ response' = res
          /\ outcome' = requestManySettleEarlier(res, errorStrategy)
    /\ pc' = "settled"
    /\ UNCHANGED <<sessionVars, templateVars, draftVars, capabilityVars, client, errorStrategy, operation>>

\* The response arrives at request, called directly or by the function
\* api.<Entity>.<operation> returns; the two clients' request are the same.
ReceiveRequest ==
    /\ pc = "sent"
    /\ operation \in {"request", "api"}
    /\ \E res \in Responses :
          /\ response' = res
          /\ outcome' = requestSettle(res)
    /\ pc' = "settled"
    /\ UNCHANGED <<sessionVars, templateVars, draftVars, capabilityVars, client, errorStrategy, operation>>

NextRequestMany == Receive \/ ReceiveEarlier \/ ReceiveRequest

SpecRequestMany == InitRequestMany /\ [][NextRequestMany]_vars

----------------------------------------------------------------------------
(* Compiling a batch with two equal drafts: SpecIdentity *)

IdentityIds == CallerIds \cup {<<"b">>}

InitIdentity == InitCompile

\* draftsFn calls the same b.<entity>.<operation> twice with equal arguments:
\* the proxy makes two InvocationDraft instances.
NewTwins ==
    /\ pc = "drafting"
    /\ instances = <<>>
    /\ \E entity \in DraftEntities, op \in DraftOperations, args \in ArgObjects :
          LET draft == [method |-> entity \o Slash \o op, args |-> args]
          IN  instances' = <<draft, draft>>
    /\ UNCHANGED <<sessionVars, templateVars, lastCompile, drafts, built, capabilityVars, callVars, pc>>

\* draftsFn makes a draft whose ids argument is a placeholder of a draft
\* that exists already.
NewReferrer ==
    /\ pc = "drafting"
    /\ Len(instances) >= 2
    /\ Len(instances) < 2 + MaxReferrers
    /\ \E op \in DraftOperations, d \in 1..Len(instances), p \in Paths :
          instances' = Append(instances,
                              [method |-> Email \o Slash \o op,
                               args |-> <<<<KeyIds, DraftRef(d, p)>>>>])
    /\ UNCHANGED <<sessionVars, templateVars, lastCompile, drafts, built, capabilityVars, callVars, pc>>

\* draftsFn puts a draft into the record it returns, under a new id.
RegisterAny ==
    /\ pc = "drafting"
    /\ \E id \in IdentityIds \ ObjectKeys(drafts), draft \in 1..Len(instances) :
          drafts' = ObjectSet(drafts, id, draft)
    /\ UNCHANGED <<sessionVars, templateVars, lastCompile, instances, built, capabilityVars, callVars, pc>>

NextIdentity == NewTwins \/ NewReferrer \/ RegisterAny \/ Compile

SpecIdentity == InitIdentity /\ [][NextIdentity]_vars

----------------------------------------------------------------------------
(* Expanding a URI template: SpecTemplate *)

TemplateKeys == {<<"a">>, <<"b">>}

TemplateValues == {<<"x">>, <<>>, <<"{", "b", "}">>}

Segments == {Parameter(key) : key \in TemplateKeys} \cup {<<"s">>}

RECURSIVE Concat(_)
Concat(parts) == IF parts = <<>> THEN <<>> ELSE parts[1] \o Concat(Tail(parts))

\* An origin, or none, and up to MaxSegments segments.
Templates ==
    {origin \o Concat(parts) :
        origin \in {<<Origin>>, <<>>},
        parts \in UNION {[1..n -> Segments] : n \in 0..MaxSegments}}

\* The params objects: any of the keys, in either creation order.
ParamObjects ==
    LET Properties == TemplateKeys \X TemplateValues
    IN  {<<>>}
          \cup {<<p>> : p \in Properties}
          \cup {<<p, q>> : <<p, q>> \in {t \in Properties \X Properties : t[1][1] # t[2][1]}}

InitTemplate ==
    /\ NoCalls
    /\ template \in Templates
    /\ params \in ParamObjects
    /\ expansion = NotExpanded
    /\ instances = <<>>
    /\ drafts = <<>>
    /\ built = NotBuilt
    /\ lastCompile = NotCompiled
    /\ capabilities = JamClientCapabilities(<<>>)
    /\ methodNamesArg = <<>>
    /\ resolved = <<>>
    /\ client = "current"
    /\ errorStrategy = "unset"
    /\ operation = "expandURITemplate"
    /\ response = NoResponse
    /\ outcome = Pending
    /\ pc = "expanding"

Expand ==
    /\ pc = "expanding"
    /\ expansion' = expandURITemplate(template, params)
    /\ pc' = "expanded"
    /\ UNCHANGED <<sessionVars, template, params, draftVars, capabilityVars, callVars>>

NextTemplate == Expand

SpecTemplate == InitTemplate /\ [][NextTemplate]_vars

----------------------------------------------------------------------------
(* Calls on one client: SpecClient *)

ApiUrl == "https://jmap.example/api"

AccountId == <<"accountId">>
BlobId == <<"blobId">>
Type == <<"type">>
Name == <<"name">>
Types == <<"types">>
CloseAfter == <<"closeafter">>
Ping == <<"ping">>

\* A session document whose URL templates hold the parameters of RFC 8620,
\* one whose templates hold none, and one whose templates are relative URLs.
SessionDocs ==
    { [apiUrl |-> ApiUrl,
       uploadUrl |-> <<Origin, "upload/">> \o Parameter(AccountId),
       downloadUrl |-> <<Origin, "download/">> \o Parameter(AccountId) \o <<"/">>
                         \o Parameter(BlobId) \o <<"/">> \o Parameter(Name)
                         \o <<"?type=">> \o Parameter(Type),
       eventSourceUrl |-> <<Origin, "events?types=">> \o Parameter(Types)
                            \o <<"&closeafter=">> \o Parameter(CloseAfter)
                            \o <<"&ping=">> \o Parameter(Ping),
       primaryAccount |-> "A1"],
      [apiUrl |-> ApiUrl,
       uploadUrl |-> <<Origin, "upload/">>,
       downloadUrl |-> <<Origin, "download/">>,
       eventSourceUrl |-> <<Origin, "events">>,
       primaryAccount |-> "A1"],
      [apiUrl |-> ApiUrl,
       uploadUrl |-> <<"/upload/">> \o Parameter(AccountId),
       downloadUrl |-> <<"/download/">> \o Parameter(AccountId) \o <<"/">>
                         \o Parameter(BlobId) \o <<"/">> \o Parameter(Name)
                         \o <<"?type=">> \o Parameter(Type),
       eventSourceUrl |-> <<"/events?types=">> \o Parameter(Types)
                            \o <<"&closeafter=">> \o Parameter(CloseAfter)
                            \o <<"&ping=">> \o Parameter(Ping),
       primaryAccount |-> "A1"] }

\* The methods a caller asks for; the client has no capability for the last.
ClientMethods ==
    {Mailbox \o Slash \o OpGet, Email \o Slash \o OpGet, Sandwich \o Slash \o OpGet}

UsingChoices == {<<>>, <<"urn:example:extension">>}

CreatedIdsChoices ==
    {[kind |-> "undefined"], [kind |-> "object", ids |-> << <<"c1", "id1">> >>]}

\* The fetchInit a caller can pass: nothing, a signal, or other values for
\* the method, the headers or the body.
FetchInits ==
    { <<>>,
      << <<"signal", "signal">> >>,
      << <<"method", "GET">> >>,
      << <<"headers", << <<"X-Trace", "1">> >> >> >>,
      << <<"body", [kind |-> "text", of |-> "other"]>> >> }

\* What a draftsFn can make and return.
ClientBatches ==
    { [instances |-> <<>>, drafts |-> <<>>],
      [instances |-> <<[method |-> Mailbox \o Slash \o OpGet, args |-> <<>>]>>,
       drafts |-> << <<<<"a">>, 1>> >>],
      [instances |-> <<[method |-> Mailbox \o Slash \o OpGet, args |-> <<>>],
                       [method |-> Email \o Slash \o OpGet,
                        args |-> << <<KeyIds, Ref(1, "/list/*/id")>> >>]>>,
       drafts |-> << <<<<"a">>, 1>>, <<<<"b">>, 2>> >>] }

\* The responses of the server to a call.
ClientResponses ==
    { OkResponse(<< <<Mailbox \o Slash \o OpGet, SyntheticPayload(1), <<"a">>>> >>, "state"),
      OkResponse(<< <<ErrorName, SyntheticPayload(2), <<"a">>>> >>, "state"),
      ErrorResponse(<<"a", "p", "p", "l", "i", "c", "a", "t", "i", "o", "n", "/",
                      "j", "s", "o", "n">>, "body"),
      ErrorResponse(NoHeader, "body"),
      OkResponse(<< <<Mailbox \o Slash \o OpGet, SyntheticPayload(1), <<"a">>>>,
                    <<ErrorName, SyntheticPayload(2), <<"r", "1">>>> >>, "state"),
      OkResponse(<< <<ErrorName, SyntheticPayload(1), <<"a">>>>,
                    <<Mailbox \o Slash \o OpGet, SyntheticPayload(2), <<"r", "1">>>> >>,
                 "state") }

RECURSIVE DecimalString(_)
\* `${n}` of a number that is not negative.
DecimalString(n) ==
    LET digit == CASE n % 10 = 0 -> "0" [] n % 10 = 1 -> "1" [] n % 10 = 2 -> "2"
                   [] n % 10 = 3 -> "3" [] n % 10 = 4 -> "4" [] n % 10 = 5 -> "5"
                   [] n % 10 = 6 -> "6" [] n % 10 = 7 -> "7" [] n % 10 = 8 -> "8"
                   [] n % 10 = 9 -> "9"
    IN  IF n < 10 THEN <<digit>> ELSE Append(DecimalString(n \div 10), digit)

InitClient ==
    /\ NoCalls
    /\ NoExpansion
    /\ instances = <<>>
    /\ drafts = <<>>
    /\ built = NotBuilt
    /\ lastCompile = NotCompiled
    /\ capabilities = JamClientCapabilities(<<>>)
    /\ methodNamesArg = <<>>
    /\ resolved = <<>>
    /\ client = "current"
    /\ errorStrategy = "unset"
    /\ operation = "none"
    /\ response = NoResponse
    /\ outcome = Pending
    /\ pc = "idle"

\* The fetch of the session URL gives a document.
SessionLoads ==
    /\ session = SessionPending
    /\ \E doc \in SessionDocs : session' = SessionResolved(doc)
    /\ UNCHANGED <<draftVars, capabilityVars, callVars, templateVars,
                   sessionFetches, options, exchanges, callsDone, pc>>

\* The fetch of the session URL, or the parse of its body, fails.
SessionFails ==
    /\ session = SessionPending
    /\ session' = SessionRejected
    /\ UNCHANGED <<draftVars, capabilityVars, callVars, templateVars,
                   sessionFetches, options, exchanges, callsDone, pc>>

\* No call is running, and the caller has calls left to make.
CanCall == pc = "idle" /\ callsDone < MaxCalls

\* A method of the client is called: it keeps what it needs of its arguments
\* and awaits this.session.
Begin(op, kept) ==
    /\ operation' = op
    /\ options' = kept
    /\ LET awaited == AwaitedSession(session, sessionFetches)
       IN  /\ session' = awaited.session
           /\ sessionFetches' = awaited.fetches
    /\ pc' = "awaiting"
    /\ UNCHANGED <<capabilityVars, client, errorStrategy, response, outcome,
                   templateVars, exchanges, callsDone>>

\* request([method, args], options), or api.<Entity>.<operation>(args, options).
CallRequest ==
    /\ CanCall
    /\ \E op \in {"request", "api"}, method \in ClientMethods, using \in UsingChoices,
          createdIds \in CreatedIdsChoices, fetchInit \in FetchInits :
          Begin(op, [kind |-> "api",
                     body |-> RequestBody(<<method>>, using,
                                          << <<method, <<>>, <<"r", "1">>>> >>, createdIds),
                     fetchInit |-> fetchInit])
    /\ UNCHANGED draftVars

\* requestMany(draftsFn, options)
CallRequestMany ==
    /\ CanCall
    /\ \E batch \in ClientBatches, using \in UsingChoices,
          createdIds \in CreatedIdsChoices, fetchInit \in FetchInits :
        /\ instances' = batch.instances
        /\ drafts' = batch.drafts
        /\ built' = (createInvocationsFromDrafts(drafts))'
        /\ UNCHANGED lastCompile
        /\ Begin("requestMany",
                 [kind |-> "api",
                  body |-> RequestBody(built'.methodNames, using,
                                       built'.methodCalls, createdIds),
                  fetchInit |-> fetchInit])

CallGetPrimaryAccount ==
    /\ CanCall
    /\ Begin("getPrimaryAccount", NoOptions)
    /\ UNCHANGED draftVars

\* uploadBlob(accountId, body, fetchInit)
CallUploadBlob ==
    /\ CanCall
    /\ \E fetchInit \in FetchInits :
          Begin("uploadBlob",
                [kind |-> "upload",
                 params |-> << <<AccountId, <<"A1">>>> >>,
                 body |-> [kind |-> "blob"],
                 fetchInit |-> fetchInit])
    /\ UNCHANGED draftVars

\* downloadBlob(options, fetchInit)
CallDownloadBlob ==
    /\ CanCall
    /\ \E fetchInit \in FetchInits :
          Begin("downloadBlob",
                [kind |-> "download",
                 params |-> << <<AccountId, <<"A1">>>>, <<BlobId, <<"B1">>>>,
                               <<Type, <<"text/plain">>>>, <<Name, <<"file">>>> >>,
                 fetchInit |-> fetchInit])
    /\ UNCHANGED draftVars

\* connectEventSource({types, ping, closeafter})
CallConnectEventSource ==
    /\ CanCall
    /\ \E types \in {<<"*">>, <<"Email", ",", "Mailbox">>},
          closeafter \in {Undefined, <<"state">>}, ping \in {0, 30} :
          Begin("connectEventSource",
                [kind |-> "events",
                 params |-> << <<Types, types>>,
                               <<CloseAfter,
                                 IF closeafter = Undefined THEN <<"no">> ELSE closeafter>>,
                               <<Ping, DecimalString(ping)>> >>])
    /\ UNCHANGED draftVars

\* The session promise is rejected: so is the call that awaits it.
SessionUnavailable ==
    /\ pc = "awaiting"
    /\ session = SessionRejected
    /\ outcome' = Rejected([kind |-> "session error"])
    /\ pc' = "settled"
    /\ UNCHANGED <<draftVars, capabilityVars, client, errorStrategy, operation, response,
                   templateVars, sessionVars>>

\* request or requestMany has the session: it fetches the apiUrl.
SendRequest ==
    /\ pc = "awaiting"
    /\ session.state = "resolved"
    /\ operation \in ApiOperations
    /\ exchanges' = Append(exchanges,
                           Exchange(ApiUrlOf(session.doc),
                                    ApiInit(options.body, options.fetchInit)))
    /\ pc' = "fetching"
    /\ UNCHANGED <<draftVars, capabilityVars, callVars, templateVars,
                   session, sessionFetches, options, callsDone>>

\* uploadBlob or downloadBlob has the session: it expands the template and
\* fetches the URL, if there is one.
SendBlob ==
    /\ pc = "awaiting"
    /\ session.state = "resolved"
    /\ operation \in {"uploadBlob", "downloadBlob"}
    /\ LET url == IF operation = "uploadBlob"
                  THEN expandURITemplate(session.doc.uploadUrl, options.params)
                  ELSE expandURITemplate(session.doc.downloadUrl, options.params)
           init == IF operation = "uploadBlob"
                   THEN UploadInit(options.body, options.fetchInit)
                   ELSE DownloadInit(options.fetchInit)
       IN  IF url.kind = "thrown"
           THEN /\ outcome' = Rejected(url.error)
                /\ pc' = "settled"
                /\ UNCHANGED exchanges
           ELSE /\ exchanges' = Append(exchanges, Exchange(url, init))
                /\ pc' = "fetching"
                /\ UNCHANGED outcome
    /\ UNCHANGED <<draftVars, capabilityVars, client, errorStrategy, operation, response,
                   templateVars, session, sessionFetches, options, callsDone>>

\* getPrimaryAccount or connectEventSource has the session: it answers from
\* the session document, without a fetch.
AnswerFromSession ==
    /\ pc = "awaiting"
    /\ session.state = "resolved"
    /\ operation \in {"getPrimaryAccount", "connectEventSource"}
    /\ outcome' =
          IF operation = "getPrimaryAccount" THEN Returned(session.doc.primaryAccount)
          ELSE LET url == expandURITemplate(session.doc.eventSourceUrl, options.params)
               IN  IF url.kind = "thrown" THEN Rejected(url.error)
                   ELSE Returned([kind |-> "EventSource", url |-> url])
    /\ pc' = "settled"
    /\ UNCHANGED <<draftVars, capabilityVars, client, errorStrategy, operation, response,
                   templateVars, sessionVars>>

\* The fetch of the call settles, with a response or with a rejection.
Respond ==
    /\ pc = "fetching"
    /\ \E res \in ClientResponses \cup {FetchRejected} :
          LET next == Settle(operation, res, exchanges)
          IN  /\ response' = res
              /\ outcome' = next.outcome
              /\ exchanges' = next.exchanges
              /\ pc' = next.pc
    /\ UNCHANGED <<draftVars, capabilityVars, client, errorStrategy, operation,
                   templateVars, session, sessionFetches, options, callsDone>>

\* The caller has the outcome; the client is ready for the next call.
Return ==
    /\ pc = "settled"
    /\ pc' = "idle"
    /\ operation' = "none"
    /\ options' = NoOptions
    /\ exchanges' = <<>>
    /\ response' = NoResponse
    /\ outcome' = Pending
    /\ instances' = <<>>
    /\ drafts' = <<>>
    /\ built' = NotBuilt
    /\ callsDone' = callsDone + 1
    /\ UNCHANGED <<lastCompile, capabilityVars, client, errorStrategy, templateVars,
                   session, sessionFetches>>

NextClient ==
    \/ SessionLoads \/ SessionFails
    \/ CallRequest \/ CallRequestMany \/ CallGetPrimaryAccount
    \/ CallUploadBlob \/ CallDownloadBlob \/ CallConnectEventSource
    \/ SessionUnavailable \/ SendRequest \/ SendBlob \/ AnswerFromSession
    \/ Respond \/ Return

SpecClient == InitClient /\ [][NextClient]_vars

----------------------------------------------------------------------------
(* Calls in flight at once on one client: SpecConcurrent *)

Calls == 1..MaxInFlight

\* The payload of the n-th method response to the request of call c.
PayloadFor(c, n) == [payload |-> n, for |-> c]

\* How the fetch of call c can settle: every method call answered, the first
\* answered with an error, a 4xx-5xx response, or no response at all.
AnswersTo(c, body) ==
    LET calls == body.methodCalls
    IN  { OkResponse([n \in 1..Len(calls) |->
                        <<calls[n][1], PayloadFor(c, n), calls[n][3]>>], "state"),
          OkResponse([n \in 1..Len(calls) |->
                        <<IF n = 1 THEN ErrorName ELSE calls[n][1],
                          PayloadFor(c, n), calls[n][3]>>], "state"),
          ErrorResponse(NoHeader, [body |-> "text", for |-> c]),
          FetchRejected }

\* A client that keeps the latest response in a field all its calls read.
ResponseOf_Shared(responses, c) ==
    LET arrived == {d \in Calls : responses[d] # NoResponse}
    IN  responses[CHOOSE d \in arrived : \A e \in arrived : d <= e]

\* `const response = await fetch(...)`: each call holds the response of its
\* own fetch in a local of its own.
ResponseOf(responses, c) == responses[c]

InitConcurrent ==
    /\ NoExpansion
    /\ session = SessionPending
    /\ sessionFetches = 1
    /\ options = [c \in Calls |-> NoOptions]
    /\ exchanges = <<>>
    /\ callsDone = 0
    /\ instances = <<>>
    /\ drafts = <<>>
    /\ built = NotBuilt
    /\ lastCompile = NotCompiled
    /\ capabilities = JamClientCapabilities(<<>>)
    /\ methodNamesArg = <<>>
    /\ resolved = <<>>
    /\ client = "current"
    /\ errorStrategy = "unset"
    /\ operation = [c \in Calls |-> "none"]
    /\ response = [c \in Calls |-> NoResponse]
    /\ outcome = [c \in Calls |-> Pending]
    /\ pc = [c \in Calls |-> "idle"]

\* Call c starts: it builds its body and awaits this.session.
StartCall(c, op, body) ==
    /\ operation' = [operation EXCEPT ![c] = op]
    /\ options' = [options EXCEPT ![c] = [kind |-> "api", body |-> body, fetchInit |-> <<>>]]
    /\ pc' = [pc EXCEPT ![c] = "awaiting"]
    /\ UNCHANGED <<capabilityVars, client, errorStrategy, response, outcome, templateVars,
                   session, sessionFetches, exchanges, callsDone>>

\* request([method, args]) is called while other calls may be in flight.
StartRequest(c) ==
    /\ pc[c] = "idle"
    /\ \E method \in {Email \o Slash \o OpGet} :
          StartCall(c, "request",
                    RequestBody(<<method>>, <<>>, << <<method, <<>>, <<"r", "1">>>> >>,
                                [kind |-> "undefined"]))
    /\ UNCHANGED draftVars

\* requestMany(draftsFn) is called while other calls may be in flight.
StartRequestMany(c) ==
    /\ pc[c] = "idle"
    /\ \E batch \in ClientBatches :
        /\ instances' = batch.instances
        /\ drafts' = batch.drafts
        /\ built' = (createInvocationsFromDrafts(drafts))'
        /\ UNCHANGED lastCompile
        /\ StartCall(c, "requestMany",
                     RequestBody(built'.methodNames, <<>>, built'.methodCalls,
                                 [kind |-> "undefined"]))

\* The session promise is rejected: so is call c, which awaits it.
Unavailable(c) ==
    /\ pc[c] = "awaiting"
    /\ session = SessionRejected
    /\ outcome' = [outcome EXCEPT ![c] = Rejected([kind |-> "session error"])]
    /\ pc' = [pc EXCEPT ![c] = "settled"]
    /\ UNCHANGED <<draftVars, capabilityVars, client, errorStrategy, operation, response,
                   templateVars, sessionVars>>

\* Call c has the session: it fetches the apiUrl.
Send(c) ==
    /\ pc[c] = "awaiting"
    /\ session.state = "resolved"
    /\ exchanges' = Append(exchanges,
                           [call |-> c,
                            url |-> ApiUrlOf(session.doc),
                            init |-> ApiInit(options[c].body, options[c].fetchInit)])
    /\ pc' = [pc EXCEPT ![c] = "fetching"]
    /\ UNCHANGED <<draftVars, capabilityVars, callVars, templateVars,
                   session, sessionFetches, options, callsDone>>

\* The fetch of call c settles and the call settles with it.
Deliver(c) ==
    /\ pc[c] = "fetching"
    /\ \E res \in AnswersTo(c, options[c].body) :
        /\ response' = [response EXCEPT ![c] = res]
        /\ outcome' = [outcome EXCEPT
                          ![c] = Outcome(operation[c], ResponseOf(response', c))]
    /\ pc' = [pc EXCEPT ![c] = "settled"]
    /\ UNCHANGED <<draftVars, capabilityVars, client, errorStrategy, operation,
                   templateVars, sessionVars>>

NextConcurrent ==
    \/ SessionLoads \/ SessionFails
    \/ \E c \in Calls : StartRequest(c)
    \/ \E c \in Calls : StartRequestMany(c)
    \/ \E c \in Calls : Unavailable(c)
    \/ \E c \in Calls : Send(c)
    \/ \E c \in Calls : Deliver(c)

SpecConcurrent == InitConcurrent /\ [][NextConcurrent]_vars

----------------------------------------------------------------------------
(* Properties of compilation *)

\* The record's entries in the order createInvocationsFromDrafts visits them.
Entries == ObjectEntries(drafts)

IsBuilt == built.status # "none"

\* The key under which the wire arguments carry the reference made for `key`.
ReferenceKey(key) == <<"#">> \o key

\* The arguments object holds a key that is the "#" form of another of its keys.
Collides(args) == \E k1, k2 \in ObjectKeys(args) : k2 = ReferenceKey(k1)

\* The record is enumerated in the order in which its ids were put into it.
EnumeratedAsInserted == ObjectEntries(drafts) = drafts

\* The draft is registered at place i of the record and nowhere else.
RegisteredOnlyAt(draft, i) ==
    /\ i \in 1..Len(Entries)
    /\ \A m \in 1..Len(Entries) : Entries[m][2] = draft <=> m = i

IsRegistered(draft) == \E i \in 1..Len(Entries) : Entries[i][2] = draft

\* The placeholders of the record: <<j, key, placeholder>> for the draft
\* visited j-th and each property of its arguments that is a placeholder.
Placeholders ==
    UNION {LET args == instances[Entries[j][2]].args
           IN  {<<j, args[n][1], args[n][2]>> :
                   n \in {m \in 1..Len(args) : isRef(args[m][2])}} :
           j \in 1..Len(Entries)}

WireArgs(j) == built.methodCalls[j][2]

Rewritten(j, key, placeholder, resultOf) ==
    /\ ObjectHas(WireArgs(j), ReferenceKey(key))
    /\ ObjectGet(WireArgs(j), ReferenceKey(key))
         = ResultReference(instances[placeholder.invocation].method, resultOf,
                           placeholder.path)
    /\ ~ObjectHas(WireArgs(j), key)

\* C1, as stated: if draft B, visited j-th, has the placeholder A.$ref(p) under
\* key k and A is registered earlier under id a, B's wire arguments hold "#k"
\* with {resultOf: a, name: A's method, path: p} and no key k.  (Read on the
\* records that are enumerated as inserted, where "earlier" has one meaning.)
C1_RewriteAsStated ==
    (built.status = "returned" /\ EnumeratedAsInserted) =>
        \A ph \in Placeholders : \A i \in 1..(ph[1] - 1) :
            RegisteredOnlyAt(ph[3].invocation, i)
                => Rewritten(ph[1], ph[2], ph[3], Entries[i][1])

\* C1, amended: the same, with "earlier" read in the order in which the record
\* is enumerated, for a draft B whose arguments hold no key that is the "#"
\* form of another of its keys.
C1_Rewrite ==
    built.status = "returned" =>
        \A ph \in Placeholders : \A i \in 1..(ph[1] - 1) :
            /\ RegisteredOnlyAt(ph[3].invocation, i)
            /\ ~Collides(instances[Entries[ph[1]][2]].args)
            => Rewritten(ph[1], ph[2], ph[3], Entries[i][1])

C1_Witness ==
    /\ built.status = "returned"
    /\ \E ph \in Placeholders : \E i \in 1..(ph[1] - 1) :
          /\ RegisteredOnlyAt(ph[3].invocation, i)
          /\ ~Collides(instances[Entries[ph[1]][2]].args)
          /\ instances[ph[3].invocation].method # instances[Entries[ph[1]][2]].method
          /\ Rewritten(ph[1], ph[2], ph[3], Entries[i][1])

Nothing == <<"nothing">>

\* The Result Reference emitted for a placeholder, if its key still holds one.
EmittedResultOf(j, key) ==
    LET value == ObjectGet(WireArgs(j), ReferenceKey(key))
    IN  IF ObjectHas(WireArgs(j), ReferenceKey(key)) /\ value.kind = "resultReference"
        THEN value.resultOf ELSE Nothing

\* C2, as stated: whatever the order, a placeholder whose source draft is in
\* the record is emitted with resultOf = the id the source is registered under.
\* (Read on the records that are enumerated as inserted.)
C2_AnyOrderAsStated ==
    (built.status = "returned" /\ EnumeratedAsInserted) =>
        \A ph \in Placeholders : \A i \in 1..Len(Entries) :
            RegisteredOnlyAt(ph[3].invocation, i)
                => EmittedResultOf(ph[1], ph[2]) \in {Entries[i][1], Nothing}

\* C2, amended: resolution depends on the order.  A source visited before the
\* referencing draft gives resultOf = its id; a source visited after it gives
\* resultOf undefined.
C2_OrderDependent ==
    built.status = "returned" =>
        \A ph \in Placeholders : \A i \in 1..Len(Entries) :
            RegisteredOnlyAt(ph[3].invocation, i)
                => EmittedResultOf(ph[1], ph[2])
                     \in {IF i < ph[1] THEN Entries[i][1] ELSE Undefined, Nothing}

C2_Witness ==
    /\ built.status = "returned"
    /\ \E ph \in Placeholders : \E i \in 1..Len(Entries) :
          /\ RegisteredOnlyAt(ph[3].invocation, i)
          /\ i > ph[1]
          /\ EmittedResultOf(ph[1], ph[2]) = Undefined

\* C3, as stated: compiling a record that holds a placeholder whose source
\* draft is not in the record raises an error.
C3_FailsAsStated ==
    (IsBuilt /\ \E ph \in Placeholders : ~IsRegistered(ph[3].invocation))
        => built.status = "thrown"

\* C3, amended: such a compilation returns normally, and the draft's wire
\* invocation carries a Result Reference with the source's method name, the
\* placeholder's path and resultOf undefined.
C3_DanglingEmitted ==
    IsBuilt =>
        /\ built.status = "returned"
        /\ Len(built.methodCalls) = Len(Entries)
        /\ \A ph \in Placeholders :
              ~IsRegistered(ph[3].invocation)
                  => EmittedResultOf(ph[1], ph[2]) \in {Undefined, Nothing}

C3_Witness ==
    /\ built.status = "returned"
    /\ \E ph \in Placeholders :
          /\ ~IsRegistered(ph[3].invocation)
          /\ EmittedResultOf(ph[1], ph[2]) = Undefined

\* C4: the ids of the compiled methodCalls are the record's ids in the order
\* in which they were put into it, one invocation per entry.
C4_InsertionOrder ==
    built.status = "returned" =>
        [i \in 1..Len(built.methodCalls) |-> built.methodCalls[i][3]]
            = [i \in 1..Len(drafts) |-> drafts[i][1]]

\* C5: for a record of one or more drafts, compiling it and demultiplexing a
\* response that echoes every compiled id once with a success payload gives a
\* result map whose keys are exactly the record's ids, each with the payload
\* echoed for it.
C5_RoundTrip ==
    (pc = "settled" /\ Len(drafts) >= 1) =>
        /\ outcome.kind = "resolved"
        /\ ObjectKeys(outcome.value) = ObjectKeys(drafts)
        /\ Len(outcome.value) = Len(drafts)
        /\ \A n \in 1..Len(response.methodResponses) :
              ObjectGet(outcome.value, response.methodResponses[n][3])
                  = response.methodResponses[n][2]

C5_Witness ==
    /\ pc = "settled"
    /\ Len(drafts) = 2
    /\ outcome.kind = "resolved"
    /\ response.methodResponses[1][3] # built.methodCalls[1][3]
    /\ ObjectGet(outcome.value, built.methodCalls[1][3]) = SyntheticPayload(2)

\* The arguments of the draft visited j-th, as Object.entries lists them.
DraftArgs(j) == ObjectEntries(instances[Entries[j][2]].args)

IsPlaceholder(value) == value.kind = "ref"

PassedThrough(wire, property) ==
    /\ ObjectHas(wire, property[1])
    /\ ObjectGet(wire, property[1]) = property[2]

\* C19, as stated: every property (k, v) of a draft's arguments whose value is
\* not a placeholder is in the wire arguments as key k with value v, whatever
\* the other properties are.
C19_PassThroughAsStated ==
    built.status = "returned" =>
        \A j \in 1..Len(built.methodCalls) :
            LET args == DraftArgs(j)
                wire == WireArgs(j)
            IN  \A n \in 1..Len(args) :
                    ~IsPlaceholder(args[n][2]) => PassedThrough(wire, args[n])

\* A later property of the same arguments is a placeholder whose "#" key is
\* the key of the n-th property.
OverwrittenLater(args, n) ==
    \E m \in (n + 1)..Len(args) :
        /\ IsPlaceholder(args[m][2])
        /\ ReferenceKey(args[m][1]) = args[n][1]

\* C19, amended: the same, unless k is the "#" form of the key of a
\* placeholder that comes later in the arguments object.
C19_PassThrough ==
    built.status = "returned" =>
        \A j \in 1..Len(built.methodCalls) :
            LET args == DraftArgs(j)
                wire == WireArgs(j)
            IN  \A n \in 1..Len(args) :
                    (~IsPlaceholder(args[n][2]) /\ ~OverwrittenLater(args, n))
                        => PassedThrough(wire, args[n])

\* A caller's "#ids" that comes after the placeholder under ids passes through.
C19_Witness ==
    /\ built.status = "returned"
    /\ \E j \in 1..Len(built.methodCalls) :
          LET args == DraftArgs(j)
          IN  /\ Len(args) = 2
              /\ IsPlaceholder(args[1][2])
              /\ args[2][1] = ReferenceKey(args[1][1])
              /\ PassedThrough(WireArgs(j), args[2])

----------------------------------------------------------------------------
(* Properties of the capability resolver *)

\* The name has an entity (entityMatcher finds one) and the client's Map
\* holds a capability, a non-empty URI, for it.
HasRegisteredCapability(name) ==
    /\ EntityMatch(name) # NoMatch
    /\ ObjectHas(capabilities, EntityMatch(name))
    /\ ObjectGet(capabilities, EntityMatch(name)) # ""

\* {c_1..c_k}: the capabilities the entities of the given names map to.
RequiredCapabilities ==
    {ObjectGet(capabilities, EntityMatch(name)) :
        name \in {n \in Members(methodNamesArg) : HasRegisteredCapability(n)}}

EntityBeforeSlash(name) ==
    LET slashes == {i \in 1..Len(name) : name[i] = "/"}
    IN  IF slashes = {} THEN name
        ELSE SubSeq(name, 1, (CHOOSE i \in slashes : \A j \in slashes : i <= j) - 1)

HasKnownEntity(name) == ObjectHas(capabilities, EntityBeforeSlash(name))

\* C8: a name whose entity has no entry in the Map adds nothing and raises
\* nothing: the result for the names is the result for the names without those
\* of unknown entity, and every capability in it is the core capability or
\* the entry of a named entity.
C8_UnknownEntityIgnored ==
    pc = "resolved" =>
        /\ resolved = getCapabilitiesForMethodCalls(
                          SelectSeq(methodNamesArg, HasKnownEntity), capabilities)
        /\ Members(resolved) \subseteq
              {CoreCapability} \cup
              {ObjectGet(capabilities, EntityBeforeSlash(name)) :
                  name \in {n \in Members(methodNamesArg) : HasKnownEntity(n)}}

C8_Witness ==
    /\ pc = "resolved"
    /\ \E name \in Members(methodNamesArg) : ~HasKnownEntity(name)
    /\ \E name \in Members(methodNamesArg) : HasRegisteredCapability(name)
    /\ resolved # <<>>

HasSlash(name) == \E i \in 1..Len(name) : name[i] = "/"

\* C21: for every method name with a "/", the entity is what comes before the
\* first "/", and if the capability map has an entry (a non-empty URI) for that
\* entity, whatever characters the entity name contains, the URI is in the
\* result.
C21_EntityExtraction ==
    pc = "resolved" =>
        \A name \in Members(methodNamesArg) :
            (/\ HasSlash(name)
             /\ HasKnownEntity(name)
             /\ ObjectGet(capabilities, EntityBeforeSlash(name)) # "") =>
                ObjectGet(capabilities, EntityBeforeSlash(name)) \in Members(resolved)

RECURSIVE Chosen(_, _)
\* The names at the places `places` of a list of names, in the list's order.
Chosen(names, places) ==
    IF names = <<>> THEN <<>>
    ELSE Chosen(SubSeq(names, 1, Len(names) - 1), places)
           \o (IF Len(names) \in places THEN <<names[Len(names)]>> ELSE <<>>)

\* C20: with the capability map fixed, the capabilities of any subset of the
\* method names are among the capabilities of all of them.
C20_Monotonic ==
    pc = "resolved" =>
        \A places \in SUBSET (1..Len(methodNamesArg)) :
            Members(getCapabilitiesForMethodCalls(Chosen(methodNamesArg, places), capabilities))
                \subseteq Members(resolved)

\* Some subset of the names needs capabilities, and fewer than all the names.
C20_Witness ==
    /\ pc = "resolved"
    /\ \E places \in SUBSET (1..Len(methodNamesArg)) :
          LET part == Members(getCapabilitiesForMethodCalls(
                                  Chosen(methodNamesArg, places), capabilities))
          IN  /\ part # {}
              /\ part # Members(resolved)
              /\ part \subseteq Members(resolved)

----------------------------------------------------------------------------
(* Properties of the settled call *)

MethodResponses == response.methodResponses

EchoedIds == {MethodResponses[n][3] : n \in 1..Len(MethodResponses)}

ErrorPlaces == {n \in 1..Len(MethodResponses) : MethodResponses[n][1] = ErrorName}

\* The payloads of the error invocations, in response order.
RECURSIVE ErrorPayloads(_)
ErrorPayloads(methodResponses) ==
    IF methodResponses = <<>> THEN <<>>
    ELSE (IF methodResponses[1][1] = ErrorName THEN <<methodResponses[1][2]>> ELSE <<>>)
           \o ErrorPayloads(Tail(methodResponses))

\* The last response invocation that echoes the id.
LastEchoing(id) ==
    MethodResponses[CHOOSE n \in 1..Len(MethodResponses) :
                      /\ MethodResponses[n][3] = id
                      /\ \A m \in 1..Len(MethodResponses) :
                            MethodResponses[m][3] = id => m <= n]

ThrowingMode ==
    /\ operation = "requestMany"
    /\ client = "current" \/ errorStrategy \in {"unset", "throw"}

ReturningMode ==
    operation = "requestMany" /\ client = "earlier" /\ errorStrategy = "return"

Answered2xx == pc = "settled" /\ response.kind = "http" /\ response.ok

ResultEntry(invocation) ==
    IF invocation[1] = ErrorName
    THEN [data |-> Null, error |-> invocation[2]]
    ELSE [data |-> invocation[2], error |-> Null]

\* C10: in returning mode, on a 2xx response, the call never rejects; it
\* resolves with a map of one entry per echoed id, {data: null, error: payload}
\* for an invocation named "error" and {data: payload, error: null} for any
\* other, and no entry has both data and error set.
C10_ReturningMode ==
    (Answered2xx /\ ReturningMode) =>
        /\ outcome.kind = "resolved"
        /\ ObjectKeys(outcome.value) = EchoedIds
        /\ Len(outcome.value) = Cardinality(EchoedIds)
        /\ \A id \in EchoedIds :
              ObjectGet(outcome.value, id) = ResultEntry(LastEchoing(id))
        /\ \A i \in 1..Len(outcome.value) :
              ~(outcome.value[i][2].data # Null /\ outcome.value[i][2].error # Null)

C10_Witness ==
    /\ Answered2xx
    /\ ReturningMode
    /\ outcome.kind = "resolved"
    /\ \E n, m \in 1..Len(MethodResponses) :
          /\ MethodResponses[n][1] = ErrorName
          /\ MethodResponses[m][1] # ErrorName
          /\ MethodResponses[n][3] # MethodResponses[m][3]
          /\ ObjectGet(outcome.value, MethodResponses[n][3]).data = Null
          /\ ObjectGet(outcome.value, MethodResponses[m][3]).error = Null

SingleCall == operation \in {"request", "api"}

ContainsJson(contentType) ==
    \E i \in 1..(Len(contentType) - 3) :
        /\ contentType[i] = "j" /\ contentType[i + 1] = "s"
        /\ contentType[i + 2] = "o" /\ contentType[i + 3] = "n"

AnsweredNon2xx == pc = "settled" /\ response.kind = "http" /\ ~response.ok

\* C12: when the response of request or requestMany has a non-2xx status the
\* call rejects, whatever the error strategy, with the parsed JSON body if the
\* Content-Type contains "json" and with the body's raw text otherwise; it
\* returns no results.
C12_TransportFailure ==
    AnsweredNon2xx =>
        /\ outcome.kind = "rejected"
        /\ DOMAIN outcome = {"kind", "error"}
        /\ outcome.error =
              IF response.contentType # NoHeader /\ ContainsJson(response.contentType)
              THEN [kind |-> "json", of |-> response.body]
              ELSE [kind |-> "text", of |-> response.body]

C12_Witness ==
    /\ AnsweredNon2xx
    /\ operation = "requestMany"
    /\ client = "earlier"
    /\ errorStrategy = "return"
    /\ ContainsJson(response.contentType)
    /\ outcome = Rejected([kind |-> "json", of |-> response.body])

----------------------------------------------------------------------------
(* Properties of identity *)

\* Two distinct drafts with the same method name and equal arguments, each
\* registered once: d1 at place i1 and d2 at place i2 of the record.
Twins(d1, i1, d2, i2) ==
    /\ d1 # d2
    /\ instances[d1] = instances[d2]
    /\ RegisteredOnlyAt(d1, i1)
    /\ RegisteredOnlyAt(d2, i2)

\* C13, as stated: when two distinct equal drafts are registered under ids a
\* and b, a placeholder made from either of them yields resultOf the id of the
\* draft it was made from.  (Read on the records that are enumerated as
\* inserted.)
C13_IdentityAsStated ==
    (built.status = "returned" /\ EnumeratedAsInserted) =>
        \A ph \in Placeholders : \A i1, i2 \in 1..Len(Entries) :
            Twins(ph[3].invocation, i1, Entries[i2][2], i2)
                => EmittedResultOf(ph[1], ph[2]) = Entries[i1][1]

\* C13, amended: the same for a placeholder that sits in a draft the record
\* enumerates after the draft the placeholder was made from.
C13_Identity ==
    built.status = "returned" =>
        \A ph \in Placeholders : \A i1, i2 \in 1..Len(Entries) :
            (Twins(ph[3].invocation, i1, Entries[i2][2], i2) /\ i1 < ph[1])
                => EmittedResultOf(ph[1], ph[2]) = Entries[i1][1]

\* The placeholder was made from the lower of two registered twins, and both
\* are enumerated before the draft that holds it.
C13_Witness ==
    /\ built.status = "returned"
    /\ \E ph \in Placeholders : \E i1, i2 \in 1..Len(Entries) :
          /\ Twins(ph[3].invocation, i1, Entries[i2][2], i2)
          /\ ph[3].invocation < Entries[i2][2]
          /\ i1 < i2
          /\ i2 < ph[1]
          /\ EmittedResultOf(ph[1], ph[2]) = Entries[i1][1]

----------------------------------------------------------------------------
(* Properties of expandURITemplate *)

Supplied == ObjectKeys(params)

\* The names of the template's placeholders.
PlaceholderNames == {key \in TemplateKeys : Includes(template, Parameter(key))}

RECURSIVE Substituted(_)
\* The text with every placeholder that has a supplied value replaced by it,
\* all at once, and every other character kept.
Substituted(text) ==
    IF text = <<>> THEN <<>>
    ELSE LET at == {key \in Supplied :
                       /\ Len(text) >= Len(Parameter(key))
                       /\ SubSeq(text, 1, Len(Parameter(key))) = Parameter(key)}
         IN  IF at = {} THEN <<text[1]>> \o Substituted(Tail(text))
             ELSE LET key == CHOOSE k \in at : TRUE
                  IN  ObjectGet(params, key)
                        \o Substituted(SubSeq(text, Len(Parameter(key)) + 1, Len(text)))

\* The template is an absolute URL and no supplied value holds a brace.
PlainExpansion ==
    /\ pc = "expanded"
    /\ template # <<>>
    /\ template[1] = Origin
    /\ \A n \in 1..Len(params) : \A i \in 1..Len(params[n][2]) :
          params[n][2][i] \notin {"{", "}"}

----------------------------------------------------------------------------
(* Properties of the client's calls *)

\* C14: the session document is fetched once, at construction; whatever
\* calls are made on the client afterwards, and however they end, the number
\* of session fetches stays one.
C14_SessionFetchedOnce == sessionFetches = 1

\* A second call has failed after its exchange, and the session was fetched once.
C14_Witness ==
    /\ callsDone >= 1
    /\ pc = "settled"
    /\ exchanges # <<>>
    /\ outcome.kind = "rejected"
    /\ sessionFetches = 1

ExchangeFailed == response = FetchRejected \/ (response.kind = "http" /\ ~response.ok)

\* C15: a call of request or requestMany makes at most one exchange with the
\* API URL, and when that exchange has failed (a non-2xx status or a rejected
\* fetch) the call is rejected and has made no second exchange.
C15_NoRetry ==
    operation \in ApiOperations =>
        /\ Len(exchanges) <= 1
        /\ \A n \in 1..Len(exchanges) : exchanges[n].url = ApiUrl
        /\ (response # NoResponse /\ ExchangeFailed) =>
              /\ pc = "settled"
              /\ outcome.kind = "rejected"
              /\ Len(exchanges) = 1

C15_Witness ==
    /\ operation = "requestMany"
    /\ pc = "settled"
    /\ response = FetchRejected
    /\ outcome = Rejected(NetworkError)
    /\ Len(exchanges) = 1

\* C16: every exchange of request or requestMany, whatever the caller's using,
\* fetchInit and createdIds, is a POST to the session's apiUrl with the headers
\* Authorization: Bearer <token>, Accept: application/json and Content-Type:
\* application/json, and with the serialized wire request as its body.
C16_FixedExchange ==
    operation \in ApiOperations =>
        \A n \in 1..Len(exchanges) :
            /\ exchanges[n].url = session.doc.apiUrl
            /\ ObjectGet(exchanges[n].init, "method") = "POST"
            /\ ObjectGet(exchanges[n].init, "headers")
                  = << <<"Authorization", [scheme |-> "Bearer", token |-> "bearerToken"]>>,
                       <<"Accept", "application/json">>,
                       <<"Content-Type", "application/json">> >>
            /\ ObjectGet(exchanges[n].init, "body") = [kind |-> "JSON", of |-> options.body]


----------------------------------------------------------------------------
(* Properties of the using list *)

\* The method names request and requestMany hand to the capability resolver.
NamesOfCall ==
    IF operation = "requestMany" THEN built.methodNames
    ELSE <<options.body.methodCalls[1][1]>>

\* A request or requestMany call has sent its request.
ApiCallSent ==
    /\ operation \in ApiOperations
    /\ pc \in {"fetching", "settled"}
    /\ exchanges # <<>>

\* C22: the using list of the wire request of request and requestMany is the
\* resolved capability set followed by the caller's using entries, and if the
\* list declares any capability other than the core capability it declares
\* the core capability as well.
C22_UsingList ==
    ApiCallSent =>
        LET using == options.body.using
        IN  /\ \E own \in UsingChoices :
                  using = getCapabilitiesForMethodCalls(NamesOfCall, capabilities) \o own
            /\ (\E capability \in Members(using) : capability # CoreCapability) =>
                   CoreCapability \in Members(using)

----------------------------------------------------------------------------
(* Properties of compiling batch after batch *)

Compiled == pc = "built" /\ lastCompile # NotCompiled

\* The wire arguments of the call made for the draft visited j-th hold a
\* Result Reference.
HoldsReference(j) ==
    \E n \in 1..Len(WireArgs(j)) : WireArgs(j)[n][2].kind = "resultReference"

IdsIn(record, draft) ==
    {record[i][1] : i \in {m \in 1..Len(record) : record[m][2] = draft}}

\* C24: compilations are isolated: a placeholder whose source draft is in the
\* record of the compilation before and not in the record compiled now is not
\* resolved to an id the source had there, and the output for a record is what
\* its compilation gives when nothing was compiled before.
C24_Isolated ==
    Compiled =>
        /\ \A ph \in Placeholders :
              (/\ ~IsRegistered(ph[3].invocation)
               /\ IdsIn(lastCompile.earlier, ph[3].invocation) # {}) =>
                  /\ ObjectHas(WireArgs(ph[1]), ReferenceKey(ph[2]))
                  /\ ObjectGet(WireArgs(ph[1]), ReferenceKey(ph[2])).resultOf
                        \notin IdsIn(lastCompile.earlier, ph[3].invocation)
        /\ built = MapDrafts(Entries, <<>>, <<>>, <<>>)

\* A record is compiled that holds a placeholder whose source was in the
\* record compiled before, and is not in this one.
C24_Witness ==
    /\ Compiled
    /\ lastCompile.earlier # drafts
    /\ \E ph \in Placeholders :
          /\ ~IsRegistered(ph[3].invocation)
          /\ IdsIn(lastCompile.earlier, ph[3].invocation) # {}
          /\ ObjectGet(WireArgs(ph[1]), ReferenceKey(ph[2])).resultOf = Undefined

----------------------------------------------------------------------------
(* Properties of calls in flight at once *)

\* The ids of the method calls call c has sent.
OwnIds(c) ==
    {options[c].body.methodCalls[n][3] : n \in 1..Len(options[c].body.methodCalls)}

\* What call c settled with holds payloads of its own response only, and, for
\* a result map, under ids of its own method calls only.
FromOwnResponse(c) ==
    LET settled == outcome[c]
    IN  IF settled.kind = "resolved"
        THEN IF operation[c] = "requestMany"
             THEN \A n \in 1..Len(settled.value) :
                     /\ settled.value[n][1] \in OwnIds(c)
                     /\ settled.value[n][2].for = c
             ELSE settled.value.for = c
        ELSE IF response[c] = FetchRejected THEN settled.error = NetworkError
        ELSE IF ~response[c].ok THEN settled.error.of.for = c
        ELSE IF operation[c] = "requestMany"
             THEN \A n \in 1..Len(settled.error) : settled.error[n].for = c
             ELSE settled.error.for = c

\* C25: with calls in flight at once, under every interleaving, each call
\* settles from its own response only; a call that has the session can send
\* whatever the other calls are waiting for; and no call changes the client's
\* capability map or the Authorization header it sends.
C25_IndependentCalls ==
    /\ capabilities = JamClientCapabilities(<<>>)
    /\ \A i \in 1..Len(exchanges) :
          ObjectGet(ObjectGet(exchanges[i].init, "headers"), "Authorization") = AuthHeader
    /\ \A c \in Calls :
          /\ (pc[c] = "settled" /\ response[c] # NoResponse) =>
                /\ outcome[c] = Outcome(operation[c], response[c])
                /\ FromOwnResponse(c)
          /\ (pc[c] = "awaiting" /\ session.state = "resolved") => ENABLED Send(c)

\* Two calls were sent one after the other, and the one sent last has
\* resolved with its results while the one sent first still waits.
C25_Witness ==
    /\ Len(exchanges) >= 2
    /\ LET first == exchanges[1].call
           second == exchanges[2].call
       IN  /\ pc[first] = "fetching"
           /\ pc[second] = "settled"
           /\ operation[second] = "requestMany"
           /\ outcome[second].kind = "resolved"
           /\ Len(outcome[second].value) = 2
           /\ FromOwnResponse(second)

----------------------------------------------------------------------------
(* Properties of the calls that expand a URI template *)

TemplateOperations == {"uploadBlob", "downloadBlob", "connectEventSource"}

\* The template of the session document the running call expands.
TemplateOfCall ==
    IF operation = "uploadBlob" THEN session.doc.uploadUrl
    ELSE IF operation = "downloadBlob" THEN session.doc.downloadUrl
    ELSE session.doc.eventSourceUrl

\* The running call has had the session document and has gone on from there.
PastExpansion ==
    /\ operation \in TemplateOperations
    /\ session.state = "resolved"
    /\ pc \in {"fetching", "settled"}

\* C26: when the template that uploadBlob, downloadBlob or connectEventSource
\* expands lacks one of the call's parameters, the call fails with the error
\* that names the parameter and issues no upload, download or event-source
\* request; and no request is issued whenever the expansion fails.
C26_FailsBeforeRequest ==
    PastExpansion =>
        LET entries == ObjectEntries(options.params)
            lacking == {n \in 1..Len(entries) :
                           ~Includes(TemplateOfCall, Parameter(entries[n][1]))}
        IN  /\ lacking # {} =>
                  /\ pc = "settled"
                  /\ outcome.kind = "rejected"
                  /\ outcome.error.name = "Error"
                  /\ outcome.error.template = TemplateOfCall
                  /\ outcome.error.parameter =
                        entries[CHOOSE n \in lacking : \A m \in lacking : n <= m][1]
                  /\ exchanges = <<>>
            /\ expandURITemplate(TemplateOfCall, options.params).kind = "thrown" =>
                  /\ pc = "settled"
                  /\ outcome.kind = "rejected"
                  /\ exchanges = <<>>

\* downloadBlob has failed on a template without placeholders.
C26_Witness ==
    /\ PastExpansion
    /\ operation = "downloadBlob"
    /\ ~Includes(TemplateOfCall, Parameter(AccountId))
    /\ outcome.kind = "rejected"
    /\ outcome.error.parameter = AccountId
    /\ exchanges = <<>>

----------------------------------------------------------------------------
(* Properties of the session and the exchange *)

\* C27: request and requestMany fetch only once the session promise has
\* resolved, and they fetch the apiUrl of that session document; if the session
\* promise was rejected they reject without a fetch.
C27_SessionBeforeExchange ==
    operation \in ApiOperations =>
        /\ exchanges # <<>> =>
              /\ session.state = "resolved"
              /\ \A i \in 1..Len(exchanges) : exchanges[i].url = session.doc.apiUrl
        /\ pc = "fetching" => exchanges # <<>>
        /\ session = SessionRejected =>
              /\ exchanges = <<>>
              /\ pc = "settled" => outcome.kind = "rejected"

\* requestMany has the session document and has sent its request to the
\* apiUrl.
C27_Witness ==
    /\ operation = "requestMany"
    /\ pc = "fetching"
    /\ session.state = "resolved"
    /\ Len(exchanges) = 1
    /\ exchanges[1].url = session.doc.apiUrl

----------------------------------------------------------------------------
(* Properties of the client's capability map *)

\* The client was made with these customCapabilities.
MadeWith(custom) == capabilities = JamClientCapabilities(custom)

\* C28: in the client's capability map an entity of knownCapabilities maps to
\* its built-in URI whatever customCapabilities says of it, an entity that is
\* in customCapabilities only maps to its custom URI, and the capability
\* resolved for a method of a built-in entity is the built-in one.
C28_BuiltInPrecedence ==
    \A custom \in CustomCapabilityChoices :
        MadeWith(custom) =>
            /\ \A n \in 1..Len(knownCapabilities) :
                  ObjectGet(capabilities, knownCapabilities[n][1]) = knownCapabilities[n][2]
            /\ \A n \in 1..Len(custom) :
                  ~ObjectHas(knownCapabilities, custom[n][1]) =>
                      ObjectGet(capabilities, custom[n][1]) = custom[n][2]
            /\ ObjectKeys(capabilities) = ObjectKeys(knownCapabilities) \cup ObjectKeys(custom)
            /\ pc = "resolved" =>
                  \A name \in Members(methodNamesArg) :
                      (EntityMatch(name) # NoMatch
                         /\ ObjectHas(knownCapabilities, EntityMatch(name))) =>
                          ObjectGet(knownCapabilities, EntityMatch(name)) \in Members(resolved)

\* A client whose customCapabilities names Mailbox has resolved Mailbox/get
\* to the mail capability.
C28_Witness ==
    /\ pc = "resolved"
    /\ \E custom \in CustomCapabilityChoices :
          /\ MadeWith(custom)
          /\ ObjectHas(custom, Mailbox)
          /\ ObjectGet(custom, Mailbox) # MailCapability
    /\ Mailbox \o Slash \o OpGet \in Members(methodNamesArg)
    /\ MailCapability \in Members(resolved)
    /\ "urn:example:params:jmap:mailbox" \notin Members(resolved)

----------------------------------------------------------------------------
(* Properties of a response that echoes an id more than once *)

\* C29: the map getResultsForMethodCalls returns has exactly one entry for
\* each caller id of the response, holding the result of the last invocation
\* that carries the id, in either mode; the number of its keys is the number of
\* distinct caller ids.  requestMany resolves with that map.
C29_DuplicateIds ==
    Answered2xx =>
        /\ \A returnErrors \in BOOLEAN :
              LET results == getResultsForMethodCalls(MethodResponses, returnErrors)
              IN  /\ Len(results) = Cardinality(EchoedIds)
                  /\ ObjectKeys(results) = EchoedIds
                  /\ \A id \in EchoedIds :
                        /\ Cardinality({n \in 1..Len(results) : results[n][1] = id}) = 1
                        /\ ObjectGet(results, id) =
                              IF returnErrors THEN ResultEntry(LastEchoing(id))
                              ELSE LastEchoing(id)[2]
        /\ (operation = "requestMany" /\ outcome.kind = "resolved") =>
              outcome.value = getResultsForMethodCalls(MethodResponses, ~ThrowingMode)

\* Two invocations of the response carry the same id and different payloads,
\* and requestMany has resolved with the payload of the second.
C29_Witness ==
    /\ Answered2xx
    /\ operation = "requestMany"
    /\ outcome.kind = "resolved"
    /\ ThrowingMode
    /\ Len(MethodResponses) = 2
    /\ MethodResponses[1][3] = MethodResponses[2][3]
    /\ MethodResponses[1][2] # MethodResponses[2][2]
    /\ Len(outcome.value) = 1
    /\ ObjectGet(outcome.value, MethodResponses[2][3]) = MethodResponses[2][2]

----------------------------------------------------------------------------
(* Properties of the single call's correlation *)

\* request, called directly or through api, is running or has settled.
RequestCalled == operation \in {"request", "api"} /\ options.kind = "api"

\* The response is a 2xx one that carries at least one method response.
AnsweredWithMethodResponse ==
    /\ pc = "settled"
    /\ response.kind = "http"
    /\ response.ok
    /\ response.methodResponses # <<>>

============================================================================
